---- MODULE Spec2Model ----
(***************************************************************************)
(* A model of the classification and scoring engine of market_analizer:    *)
(*   - data/geocoder.py        address geocoding with a durable cache      *)
(*   - analyzers/street_analyzer.py, scripts/update_street_colors.py       *)
(*                             saving street records, alone and in a batch *)
(*   - analyzers/land_scorer.py, data/database.py                          *)
(*                             evaluation of a land parcel                 *)
(* Each part has its own specification (SpecGeo, SpecStreet, SpecLand)     *)
(* over the shared list of variables; a specification leaves the variables *)
(* of the other parts unchanged.                                           *)
(*                                                                         *)
(* Coordinates are pairs <<lat, lon>> of integer offsets from CITY_CENTER  *)
(* in hundredths of a degree; None (Python's None) is the empty tuple.     *)
(***************************************************************************)
EXTENDS Integers, Sequences, FiniteSets, TLC

VARIABLES
  \* ---- data/geocoder.py
  radius,        \* config.RADIUS_MILES, fixed at start-up
  cache,         \* the module global _cache, a function key -> coordinate or None
  loaded,        \* _cache is not None
  disk,          \* the content of CACHE_FILE as last written
  diskState,     \* "ok", "missing", "unreadable", "corrupt" or "undecodable"
  pc,            \* position of the running geocode_address call, "idle" when none
  raw,           \* the address argument of the running / last call
  attempt,       \* the loop variable of the primary loop
  calls,         \* outbound geolocator.geocode calls of the running / last call
  lastResult,    \* what the last finished call returned
  lastStatus,    \* "returned" or "raised" for the last finished call
  fromCache,     \* the last finished call returned at the cache lookup
  prevRaw,       \* the call before: its argument,
  prevResult,    \*   its result,
  prevCalls,     \*   its outbound calls
  finished,      \* number of finished geocode_address calls
  sinceCall,     \* seconds slept since the last outbound call came back
  \* ---- analyzers/street_analyzer.py, scripts/update_street_colors.py
  props,         \* table properties, per (street, city): the median price per sqft of
                 \*   the comparables the street query selects, 0 when it selects none
                 \*   with a price
  imports,       \* number of changes made to table properties so far
  streetRows,    \* the committed rows of table street_analysis
  nextId,        \* the last value of the table's autoincrement id
  spc,           \* per run of the script: "off", "loop", "commit", "done", "aborted"
  worklist,      \* per run: street_city_pairs
  sIdx,          \* per run: position of the loop in street_city_pairs
  sVal,          \* per run: the analysis being saved
  sExisting,     \* per run: id of the row the lookup of the save found, 0 when none
  sProcessed,    \* per run: the keys the loop has analysed and, with data, saved
  sFailed,       \* per run: the keys whose save raised
  lastCommit,    \* per key: the values of the last successful commit
  \* ---- analyzers/land_scorer.py
  landOpps,      \* the rows of table land_opportunities
  marketRows,    \* the rows of table market_heat_zones
  houses,        \* the rows of table properties the radius query reads
  lastParcel,    \* the parcel of the last evaluate_land_opportunity call
  lastOutcome,   \* "none", "rejected", "stored" or "raised"
  oppsBefore,    \* landOpps as it was when that call started
  evalCount,     \* number of evaluate calls so far
  \* ---- data/geocoder.py, the primary loop
  primaryLog,    \* what each pass of the primary loop of the running call got
  tierLog,       \* the fallback tiers the running call went through, and what they got
  batchTodo,     \* batch_geocode: the addresses of the list not yet done
  batchResults,  \* batch_geocode: results
  bpc,           \* batch_geocode: "none", "loop" or "called" (inside geocode_address)
  \* ---- the scoring and classification functions, applied on their own
  thresholds,    \* config.COLOR_THRESHOLDS, fixed at start-up
  colorIn,       \* the two medians determine_color was last applied to
  colorOut,      \* the colours it returned for them
  weights,       \* config.URGENCY_SCORING, fixed at start-up
  scoreIn,       \* the arguments calculate_land_score was last applied to
  scoreOut,      \* the score it returned and the level derived from it
  priceIn,       \* the list price and sale price of the last price test
  priceOut,      \* the price taken and whether it passed the price filter
  calcCount,     \* number of applications so far
  fnIn,          \* the arguments of the function applied last, of the other functions
  fnOut,         \* what that function returned
  \* ---- analyzers/market_heat.py
  mktIn,         \* the counts and changes the last analysis of a postal code read
  mktOut,        \* its inventory, status and outcome
  mktBefore,     \* marketRows as it was when that analysis started
  mktCount,      \* number of analyses so far
  \* ---- analyzers/street_analyzer.py, one street on its own
  comps,         \* the rows of table properties on the street
  selected,      \* what get_properties_by_street last returned
  selResult,     \* what analyze_single_street last returned
  selBefore,     \* streetRows as it was when that analysis started
  selCount,      \* number of analyses of the street so far
  \* ---- data/database.py get_session, the sessions the analyzers open
  sOp,           \* the operation running, "none" when none
  sBlock,        \* the session block of the operation the control is at or before
  sIn,           \* the control is inside the try of that block
  openSessions,  \* the sessions opened and not closed
  sessionsOpened,\* number of get_session calls so far
  sEnds,         \* how the operations so far ended: "returned", "rejected", "raised"
  sOps,          \* number of operations finished
  \* ---- monitors/email_monitor.py
  processed_emails, \* EmailMonitor.processed_emails
  processedFile, \* the ids in processed_emails.json
  mpc,           \* position of check_new_emails: "idle" or "loop"
  mTodo,         \* the ids of the search result the loop has not reached yet
  fetches,       \* per message id, the number of imap.fetch calls made for it
  mRuns,         \* number of check_new_emails runs started
  \* ---- data/mls_importer.py import_csv_file
  table,         \* the committed rows of table properties, as mls_number -> status
  pending,       \* the rows added to the session of the import and not committed
  csv,           \* the rows of the file being imported
  idx,           \* the loop index of the import
  ipc,           \* position of the import: "idle", "loop", "commit"
  new_count,     \* the counter of the running / last import
  iReturned,     \* what the last import returned, -1 before the first
  iRuns          \* number of imports started

geoVars == <<radius, cache, loaded, disk, diskState, pc, raw, attempt, calls,
             lastResult, lastStatus, fromCache, prevRaw, prevResult, prevCalls,
             finished, sinceCall, primaryLog, tierLog, batchTodo, batchResults, bpc>>
batchVars == <<batchTodo, batchResults, bpc>>
streetVars == <<props, imports, streetRows, nextId, spc, worklist, sIdx, sVal,
                sExisting, sProcessed, sFailed, lastCommit>>
landVars == <<landOpps, marketRows, houses, lastParcel, lastOutcome, oppsBefore, evalCount>>
calcVars == <<thresholds, colorIn, colorOut, weights, scoreIn, scoreOut, priceIn,
              priceOut, calcCount, fnIn, fnOut>>
marketVars == <<mktIn, mktOut, mktBefore, mktCount>>
selVars == <<comps, selected, selResult, selBefore, selCount>>
sessVars == <<sOp, sBlock, sIn, openSessions, sessionsOpened, sEnds, sOps>>
mailVars == <<processed_emails, processedFile, mpc, mTodo, fetches, mRuns>>
importVars == <<table, pending, csv, idx, ipc, new_count, iReturned, iRuns>>
ioVars == <<sessVars, mailVars, importVars>>
otherVars == <<calcVars, marketVars, selVars, ioVars>>
vars == <<geoVars, streetVars, landVars, otherVars>>

None == <<>>

(***************************************************************************)
(* data/geocoder.py                                                        *)
(***************************************************************************)

\* Bounds of the geocoder model.
MaxResolves == 2

LowerLetters == {"a", "b", "c"}
UpperLetters == {"A", "B", "C"}
Digits == {"9"}
Space == " "

IsLetter(ch) == ch \in LowerLetters \cup UpperLetters
IsWordChar(ch) == IsLetter(ch) \/ ch \in Digits

\* str.upper / str.lower on one character
Upper(ch) == CASE ch = "a" -> "A" [] ch = "b" -> "B" [] ch = "c" -> "C" [] OTHER -> ch
Lower(ch) == CASE ch = "A" -> "a" [] ch = "B" -> "b" [] ch = "C" -> "c" [] OTHER -> ch

\* str.strip(): drop leading and trailing whitespace
Strip(s) ==
  LET keep == {i \in 1..Len(s) : s[i] # Space}
  IN IF keep = {} THEN <<>>
     ELSE LET lo == CHOOSE i \in keep : \A j \in keep : i <= j
              hi == CHOOSE i \in keep : \A j \in keep : j <= i
          IN SubSeq(s, lo, hi)

\* str.title(): a letter is upper-cased when the character before it is not a
\* letter, lower-cased otherwise
Title(s) ==
  [i \in 1..Len(s) |->
     IF IsLetter(s[i])
     THEN IF i > 1 /\ IsLetter(s[i - 1]) THEN Lower(s[i]) ELSE Upper(s[i])
     ELSE s[i]]

\* str.casefold() on the model's alphabet
CaseFold(s) == [i \in 1..Len(s) |-> Lower(s[i])]

\* A normalisation that forgets the .title() call.
NormalizeStripOnly(address) == Strip(address)

\* geocode_address line 225: address.strip().title()
Normalize(address) == Title(Strip(address))

\* re.search(r'\b\d{5}\b', address): five digits with a word boundary on each side
HasZip(address) ==
  \E i \in 1..Len(address) :
     /\ i + 4 <= Len(address)
     /\ \A k \in 0..4 : address[i + k] \in Digits
     /\ (i = 1 \/ ~IsWordChar(address[i - 1]))
     /\ (i + 4 = Len(address) \/ ~IsWordChar(address[i + 5]))

\* The addresses callers pass in.
RawAddresses ==
  { <<"a", "b">>, <<" ", "A", "B", " ">>,
    <<"c", " ", "9", "9", "9", "9", "9">> }

\* config.RADIUS_MILES: the configurations the model starts from (miles).
RadiusChoices == {3, 25}

\* The places the external geocoder may answer with: one close to the centre, one
\* two degrees away.
GeoLocations == { <<1, 1>>, <<200, 0>> }

\* What one geolocator.geocode call may do.
GeocoderOutcomes ==
  {<<"found", l>> : l \in GeoLocations}
    \cup {<<"none", None>>, <<"timeout", None>>, <<"error", None>>}

\* The pair of random.uniform(-d, d) draws of a jittered tier, in units of d: two
\* corners of the square the draws come from.
Jitters == { <<-1, 1>>, <<1, 1>> }

\* The jitter widths of the two jittered tiers, in hundredths of a degree.
ZipJitter == 1
CenterJitter == 5

\* Miles per degree of latitude and of longitude at the reference centre.
MilesPerLatDeg == 69
MilesPerLonDeg == 55

\* time.sleep arguments and the provider's limit, in seconds.
MinDelay == 1
ShortSleep == 1
LongSleep == 2
\* A primary loop that goes round once more.
MaxAttemptsFour == 3 + 1

\* range(3) of the primary loop
MaxAttempts == 3

\* config.CITY_CENTER: the origin of the model's coordinates
CITY_CENTER == <<0, 0>>

\* haversine_distance, squared, in (miles/100)^2. The great-circle formula is
\* replaced by its flat approximation, good for points a few degrees apart.
haversine_distance2(a, b) ==
  (MilesPerLatDeg * (b[1] - a[1])) * (MilesPerLatDeg * (b[1] - a[1]))
    + (MilesPerLonDeg * (b[2] - a[2])) * (MilesPerLonDeg * (b[2] - a[2]))

\* distance <= miles, for a distance given by its square
WithinMiles(d2, miles) == d2 <= (100 * miles) * (100 * miles)

\* validate_coordinates: haversine_distance(CITY_CENTER, c) <= RADIUS_MILES
validate_coordinates(c, r) == WithinMiles(haversine_distance2(CITY_CENTER, c), r)

\* The exception classes the except clauses around geolocator.geocode name.
CaughtExceptions == {"timeout", "error"}

IsException(o) == o[1] \in {"timeout", "error"}

\* cache[address] = coords
CachePut(c, key, coords) ==
  [k \in DOMAIN c \cup {key} |-> IF k = key THEN coords ELSE c[k]]

EmptyCache == [k \in {} |-> None]

\* What CACHE_FILE may be when it is read: "ok" holds a JSON object of coordinates,
\* "missing" does not exist, "unreadable" makes open() raise IOError, "corrupt" makes
\* json.load raise JSONDecodeError, "undecodable" holds bytes that are not UTF-8 text
\* and makes the read inside json.load raise UnicodeDecodeError.
DiskStates == {"ok", "missing", "unreadable", "corrupt", "undecodable"}

\* The exceptions of the read that `except (json.JSONDecodeError, IOError)` catches.
CaughtOnLoad == {"unreadable", "corrupt"}

\* load_geocode_cache lets the exception of the read through: it is none of the two
\* classes of its except clause, and _cache stays None.
LoadRaises == ~loaded /\ diskState \notin ({"ok", "missing"} \cup CaughtOnLoad)

\* A load that reads the file on every call and keeps no copy in memory.
load_geocode_cache_fresh == IF diskState = "ok" THEN disk ELSE EmptyCache

\* load_geocode_cache: the memory copy when there is one, else the file's content,
\* else (file missing, or a caught exception of the read) an empty dict
load_geocode_cache == 
  IF loaded THEN cache
  ELSE IF diskState = "ok" THEN disk ELSE EmptyCache

\* What open(CACHE_FILE, 'w') followed by json.dump may do.
IoOutcomes == {"ok", "open_failed"}

\* save_geocode_cache: the file holds the whole dict after a successful write; an
\* IOError (the file cannot be opened for writing) is swallowed and leaves the file
\* as it was.
save_geocode_cache(c, io) ==
  /\ disk' = IF io = "ok" THEN c ELSE disk
  /\ diskState' = IF io = "ok" THEN "ok" ELSE diskState

\* an outbound call came back and time.sleep(n) follows it
SleepAfterCall(n) == sinceCall' = n

\* geolocator.geocode(...) is called
IssueCall == calls' = calls + 1

\* geocode_address returns res
Return(res, hit) ==
  /\ pc' = "idle"
  /\ primaryLog' = <<>>
  /\ tierLog' = <<>>
  /\ lastResult' = res
  /\ lastStatus' = "returned"
  /\ fromCache' = hit
  /\ finished' = finished + 1

\* an exception leaves geocode_address
Raise ==
  /\ pc' = "idle"
  /\ primaryLog' = <<>>
  /\ tierLog' = <<>>
  /\ lastResult' = None
  /\ lastStatus' = "raised"
  /\ fromCache' = FALSE
  /\ finished' = finished + 1

Running(next) ==
  /\ pc' = next
  /\ UNCHANGED <<lastResult, lastStatus, fromCache, finished>>

\* geocode_address lines 224-232: normalise, load the cache, look the address up
LookupCall(address) ==
  /\ pc = "idle"
  /\ finished < MaxResolves
  /\ raw' = address
  /\ prevRaw' = raw
  /\ prevResult' = lastResult
  /\ prevCalls' = calls
  /\ calls' = 0
  /\ attempt' = 0
  /\ cache' = IF LoadRaises THEN cache ELSE load_geocode_cache
  /\ loaded' = ~LoadRaises
  /\ IF LoadRaises
     THEN Raise
     ELSE IF Normalize(address) \in DOMAIN cache'
     THEN Return(cache'[Normalize(address)], TRUE)
     ELSE /\ pc' = "primary"
          /\ primaryLog' = <<>>
          /\ tierLog' = <<>>
          /\ lastResult' = None
          /\ lastStatus' = "running"
          /\ fromCache' = FALSE
          /\ finished' = finished
  /\ UNCHANGED <<radius, disk, diskState, sinceCall>>
  /\ UNCHANGED <<streetVars, landVars, otherVars>>

\* geocode_address called on its own, outside batch_geocode
GeocodeLookup(address) ==
  /\ bpc = "none"
  /\ LookupCall(address)
  /\ UNCHANGED batchVars

\* geocode_address lines 246-252 and 273-278: keep the coordinate in the dict, write
\* the dict to the file, return the coordinate
StoreAndReturn(coords) ==
  /\ cache' = CachePut(cache, Normalize(raw), coords)
  /\ \E io \in IoOutcomes : save_geocode_cache(cache', io)
  /\ Return(coords, FALSE)

NoStore == UNCHANGED <<cache, disk, diskState>>

\* geocode_address lines 235-268: one pass of the primary loop
PrimaryAttempt(o) ==
  /\ pc = "primary"
  /\ IssueCall
  /\ UNCHANGED <<radius, loaded, raw, prevRaw, prevResult, prevCalls, batchVars>>
  /\ UNCHANGED <<streetVars, landVars, otherVars>>
  /\ IF IsException(o) /\ o[1] \notin CaughtExceptions
     THEN Raise /\ sinceCall' = 0 /\ NoStore /\ UNCHANGED attempt
     ELSE CASE o[1] = "found" /\ validate_coordinates(o[2], radius) ->
                 /\ StoreAndReturn(o[2])
                 /\ SleepAfterCall(ShortSleep)
                 /\ UNCHANGED attempt
            [] o[1] = "timeout" /\ attempt < MaxAttempts - 1 ->
                 /\ SleepAfterCall(LongSleep)
                 /\ attempt' = attempt + 1
                 /\ Running("primary") /\ NoStore /\ primaryLog' = Append(primaryLog, "timeout")
                 /\ UNCHANGED tierLog
            [] o[1] = "timeout" /\ attempt >= MaxAttempts - 1 ->
                 \* line 263: break, and no sleep before the fallback's first call
                 /\ sinceCall' = 0
                 /\ Running("street") /\ NoStore /\ UNCHANGED <<attempt, tierLog>>
                 /\ primaryLog' = Append(primaryLog, "timeout")
            [] o[1] = "error" ->
                 /\ SleepAfterCall(LongSleep)
                 /\ Running("street") /\ NoStore /\ UNCHANGED <<attempt, tierLog>>
                 /\ primaryLog' = Append(primaryLog, "error")
            [] OTHER ->
                 \* nothing found, or a coordinate that fails the validation
                 /\ SleepAfterCall(ShortSleep)
                 /\ Running("street") /\ NoStore /\ UNCHANGED <<attempt, tierLog>>
                 /\ primaryLog' = Append(primaryLog,
                                         IF o[1] = "found" THEN "implausible" ELSE "not_found")

\* A chain that tries the postal-code tier whatever the address holds.
AfterStreetAlwaysZip == "zip"

\* How a lookup of a fallback tier that gave no coordinate ended: the exception it
\* raised, a location outside the radius, or no location.
TierFailure(o) ==
  IF IsException(o) THEN o[1] ELSE IF o[1] = "found" THEN "implausible" ELSE "not_found"

\* The tier after the street tier: the postal code when the address has one.
AfterStreet == IF HasZip(Normalize(raw)) THEN "zip" ELSE "center"

\* fallback_geocode lines 171-184: the street name alone
FallbackStreet(o) ==
  /\ pc = "street"
  /\ IssueCall
  /\ UNCHANGED <<radius, loaded, raw, prevRaw, prevResult, prevCalls, attempt, batchVars>>
  /\ UNCHANGED <<streetVars, landVars, otherVars>>
  /\ IF IsException(o) /\ o[1] \notin CaughtExceptions
     THEN Raise /\ sinceCall' = 0 /\ NoStore
     ELSE CASE o[1] = "found" /\ validate_coordinates(o[2], radius) ->
                 /\ SleepAfterCall(ShortSleep)
                 /\ StoreAndReturn(o[2])
            [] IsException(o) ->
                 /\ SleepAfterCall(LongSleep)
                 /\ Running(AfterStreet) /\ NoStore /\ UNCHANGED primaryLog
                 /\ tierLog' = Append(tierLog, <<"street", TierFailure(o)>>)
            [] OTHER ->
                 /\ SleepAfterCall(ShortSleep)
                 /\ Running(AfterStreet) /\ NoStore /\ UNCHANGED primaryLog
                 /\ tierLog' = Append(tierLog, <<"street", TierFailure(o)>>)

\* location + random.uniform(-0.01, 0.01) on each axis
ZipCoords(loc, j) == <<loc[1] + ZipJitter * j[1], loc[2] + ZipJitter * j[2]>>

\* fallback_geocode lines 186-205: the postal code alone, plus a jitter
FallbackZip(o, j) ==
  /\ pc = "zip"
  /\ IssueCall
  /\ UNCHANGED <<radius, loaded, raw, prevRaw, prevResult, prevCalls, attempt, batchVars>>
  /\ UNCHANGED <<streetVars, landVars, otherVars>>
  /\ IF IsException(o) /\ o[1] \notin CaughtExceptions
     THEN Raise /\ sinceCall' = 0 /\ NoStore
     ELSE CASE o[1] = "found" /\ validate_coordinates(ZipCoords(o[2], j), radius) ->
                 /\ SleepAfterCall(ShortSleep)
                 /\ StoreAndReturn(ZipCoords(o[2], j))
            [] IsException(o) ->
                 /\ SleepAfterCall(LongSleep)
                 /\ Running("center") /\ NoStore /\ UNCHANGED primaryLog
                 /\ tierLog' = Append(tierLog, <<"zip", TierFailure(o)>>)
            [] OTHER ->
                 /\ SleepAfterCall(ShortSleep)
                 /\ Running("center") /\ NoStore /\ UNCHANGED primaryLog
                 /\ tierLog' = Append(tierLog, <<"zip", TierFailure(o)>>)

\* A last tier that gives up instead of inventing a coordinate.
CenterCoordsNone(j) == None

\* fallback_geocode lines 207-211: CITY_CENTER + random.uniform(-0.05, 0.05) on each
\* axis, returned without validation
CenterCoords(j) == <<CenterJitter * j[1], CenterJitter * j[2]>>

\* fallback_geocode lines 207-211, then geocode_address lines 273-278
FallbackCenter(j) ==
  /\ pc = "center"
  /\ UNCHANGED <<radius, loaded, raw, prevRaw, prevResult, prevCalls, attempt,
                 calls, sinceCall, batchVars>>
  /\ UNCHANGED <<streetVars, landVars, otherVars>>
  /\ IF CenterCoords(j) # None
     THEN StoreAndReturn(CenterCoords(j))
     ELSE Return(None, FALSE) /\ NoStore

\* What CACHE_FILE may hold when the process starts.
DiskChoices == { EmptyCache, [k \in {<<"A", "b">>} |-> <<1, 1>>] }

GeoInit ==
  /\ radius \in RadiusChoices
  /\ cache = EmptyCache
  /\ loaded = FALSE
  /\ diskState \in DiskStates
  /\ disk \in (IF diskState = "ok" THEN DiskChoices ELSE {EmptyCache})
  /\ pc = "idle"
  /\ raw = <<>>
  /\ attempt = 0
  /\ calls = 0
  /\ lastResult = None
  /\ lastStatus = "returned"
  /\ fromCache = FALSE
  /\ prevRaw = <<>>
  /\ prevResult = None
  /\ prevCalls = 0
  /\ finished = 0
  /\ sinceCall = LongSleep
  /\ primaryLog = <<>>
  /\ tierLog = <<>>
  /\ batchTodo = <<>>
  /\ batchResults = <<>>
  /\ bpc = "none"

\* The geocoder part at rest, for the specifications of the other parts.
GeoOff ==
  /\ radius = 0 /\ cache = EmptyCache /\ loaded = FALSE /\ disk = EmptyCache
  /\ diskState = "missing" /\ pc = "off" /\ raw = <<>> /\ attempt = 0 /\ calls = 0
  /\ lastResult = None /\ lastStatus = "returned" /\ fromCache = FALSE
  /\ prevRaw = <<>> /\ prevResult = None /\ prevCalls = 0 /\ finished = 0
  /\ sinceCall = 0 /\ primaryLog = <<>> /\ tierLog = <<>>
  /\ batchTodo = <<>> /\ batchResults = <<>> /\ bpc = "none"

StreetOff ==
  /\ props = <<>> /\ imports = 0 /\ streetRows = {} /\ nextId = 0 /\ spc = <<>>
  /\ worklist = <<>> /\ sIdx = <<>> /\ sVal = <<>> /\ sExisting = <<>>
  /\ sProcessed = <<>> /\ sFailed = <<>> /\ lastCommit = <<>>

LandOff ==
  /\ landOpps = {} /\ marketRows = {} /\ houses = {} /\ lastParcel = <<>>
  /\ lastOutcome = "none" /\ oppsBefore = {} /\ evalCount = 0

\* The functions applied on their own, the market analysis and the analysis of
\* one street at rest.
CalcOff ==
  /\ thresholds = <<>> /\ colorIn = <<>> /\ colorOut = <<>> /\ weights = <<>>
  /\ scoreIn = <<>> /\ scoreOut = <<>> /\ priceIn = <<>> /\ priceOut = <<>>
  /\ calcCount = 0 /\ fnIn = <<>> /\ fnOut = <<>>

MarketOff == mktIn = <<>> /\ mktOut = <<>> /\ mktBefore = {} /\ mktCount = 0

SelOff ==
  /\ comps = {} /\ selected = {} /\ selResult = <<>> /\ selBefore = {} /\ selCount = 0

SessOff ==
  /\ sOp = "none" /\ sBlock = 0 /\ sIn = FALSE /\ openSessions = {}
  /\ sessionsOpened = 0 /\ sEnds = {} /\ sOps = 0

MailOff ==
  /\ processed_emails = {} /\ processedFile = {} /\ mpc = "idle" /\ mTodo = {}
  /\ fetches = <<>> /\ mRuns = 0

ImportOff ==
  /\ table = <<>> /\ pending = <<>> /\ csv = <<>> /\ idx = 0 /\ ipc = "idle"
  /\ new_count = 0 /\ iReturned = -1 /\ iRuns = 0

IoOff == SessOff /\ MailOff /\ ImportOff

OtherOff == CalcOff /\ MarketOff /\ SelOff /\ IoOff

GeoNext ==
  \/ \E address \in RawAddresses : GeocodeLookup(address)
  \/ \E o \in GeocoderOutcomes : PrimaryAttempt(o)
  \/ \E o \in GeocoderOutcomes : FallbackStreet(o)
  \/ \E o \in GeocoderOutcomes, j \in Jitters : FallbackZip(o, j)
  \/ \E j \in Jitters : FallbackCenter(j)

\* The start of the geocoder part, the other parts at rest.
GeoStart == GeoInit /\ StreetOff /\ LandOff /\ OtherOff

SpecGeo == GeoStart /\ [][GeoNext]_vars

(***************************************************************************)
(* batch_geocode                                                           *)
(***************************************************************************)

\* The lists callers pass to batch_geocode: every pair of addresses.
BatchLists == RawAddresses \X RawAddresses

\* Everything of the geocoder part a step of the batch loop itself leaves alone.
BatchFrame ==
  UNCHANGED <<radius, disk, diskState, pc, raw, attempt, calls, prevRaw, prevResult,
              prevCalls, finished, primaryLog, tierLog>>

\* batch_geocode lines 291-294: results = [], load the cache once
batch_geocode(addresses) ==
  /\ pc = "idle" /\ bpc = "none"
  /\ finished < MaxResolves
  /\ batchResults' = <<>>
  /\ IF LoadRaises
     THEN /\ bpc' = "none" /\ batchTodo' = <<>>
          /\ lastStatus' = "raised" /\ lastResult' = None /\ fromCache' = FALSE
          /\ UNCHANGED <<cache, loaded>>
     ELSE /\ bpc' = "loop" /\ batchTodo' = addresses
          /\ cache' = load_geocode_cache /\ loaded' = TRUE
          /\ UNCHANGED <<lastStatus, lastResult, fromCache>>
  /\ BatchFrame
  /\ UNCHANGED sinceCall
  /\ UNCHANGED <<streetVars, landVars, otherVars>>

\* batch_geocode lines 296-305: the next address of the list, taken from the cache
\* or handed to geocode_address; line 311 when the list is done
BatchGeocodeStep ==
  /\ pc = "idle" /\ bpc = "loop"
  /\ IF batchTodo = <<>>
     THEN /\ bpc' = "none"
          /\ UNCHANGED <<batchTodo, batchResults, cache, loaded, lastStatus, lastResult,
                         fromCache, sinceCall>>
          /\ BatchFrame
          /\ UNCHANGED <<streetVars, landVars, otherVars>>
     ELSE IF Normalize(Head(batchTodo)) \in DOMAIN cache
     THEN /\ batchResults' = Append(batchResults, cache[Normalize(Head(batchTodo))])
          /\ batchTodo' = Tail(batchTodo)
          /\ UNCHANGED <<bpc, cache, loaded, lastStatus, lastResult, fromCache, sinceCall>>
          /\ BatchFrame
          /\ UNCHANGED <<streetVars, landVars, otherVars>>
     ELSE /\ LookupCall(Normalize(Head(batchTodo)))
          /\ bpc' = "called"
          /\ UNCHANGED <<batchTodo, batchResults>>

\* batch_geocode lines 304-308: geocode_address has returned; its result joins the
\* list and time.sleep(1) follows. An exception of geocode_address ends the batch.
BatchGeocodeCollect ==
  /\ pc = "idle" /\ bpc = "called"
  /\ IF lastStatus = "raised"
     THEN /\ bpc' = "none" /\ batchTodo' = <<>> /\ batchResults' = <<>>
          /\ UNCHANGED sinceCall
     ELSE /\ bpc' = "loop"
          /\ batchTodo' = Tail(batchTodo)
          /\ batchResults' = Append(batchResults, lastResult)
          /\ sinceCall' = sinceCall + ShortSleep
  /\ UNCHANGED <<cache, loaded, lastStatus, lastResult, fromCache>>
  /\ BatchFrame
  /\ UNCHANGED <<streetVars, landVars, otherVars>>

BatchNext ==
  \/ GeoNext
  \/ \E addresses \in BatchLists : batch_geocode(addresses)
  \/ BatchGeocodeStep
  \/ BatchGeocodeCollect

\* The start of a process that runs batches: the default radius, and a cache file
\* that is missing or holds an entry.
BatchStartState ==
  /\ GeoStart
  /\ radius = 25
  /\ diskState = "missing" \/ (diskState = "ok" /\ disk # EmptyCache)

SpecBatch == BatchStartState /\ [][BatchNext]_vars

(***************************************************************************)
(* Claims about data/geocoder.py, checked under SpecGeo                    *)
(***************************************************************************)

\* The address of the running / last call and of the one before are the same
\* after the specification's normalisation: trim, then case-fold.
SameNormalized == CaseFold(Strip(prevRaw)) = CaseFold(Strip(raw))

TwoFinished == pc = "idle" /\ finished >= 2

\* Some step of the running call can be taken.
GeoStepEnabled ==
  \/ ENABLED (\E o \in GeocoderOutcomes : PrimaryAttempt(o))
  \/ ENABLED (\E o \in GeocoderOutcomes : FallbackStreet(o))
  \/ ENABLED (\E o \in GeocoderOutcomes, j \in Jitters : FallbackZip(o, j))
  \/ ENABLED (\E j \in Jitters : FallbackCenter(j))

\* C5: geocode_address ends and returns a coordinate, never None and never an
\* exception, whatever the geocoder does on each call: a finished call has returned
\* a coordinate, and a running call has made at most 3 + 2 outbound calls and can
\* always take its next step.
C5_ResolveReturnsCoordinate ==
  /\ (pc = "idle" /\ finished > 0) =>
        (lastStatus = "returned" /\ lastResult # None)
  /\ pc # "idle" =>
        (calls <= 5 /\ attempt <= 2 /\ GeoStepEnabled)

\* C5 witness: a call that went through three primary attempts and both fallback
\* lookups without a usable answer has returned the jittered centre.
C5_Witness ==
  /\ pc = "idle" /\ finished > 0 /\ calls = 5 /\ ~fromCache
  /\ lastResult \in {CenterCoords(j) : j \in Jitters}

\* C6: every coordinate geocode_address returns and keeps in the cache lies within
\* RADIUS_MILES of CITY_CENTER, whichever tier produced it.
C6_StoredCoordinateInRadius ==
  /\ \A k \in DOMAIN cache : validate_coordinates(cache[k], radius)
  /\ (pc = "idle" /\ finished > 0 /\ lastResult # None) =>
        validate_coordinates(lastResult, radius)

\* C7: of two consecutive calls whose addresses are the same after trim and
\* case-fold, the second returns the coordinate the first returned, returns it at
\* the cache lookup, and makes no outbound call.
C7_SecondCallFromCache ==
  (TwoFinished /\ SameNormalized) =>
     (lastResult = prevResult /\ fromCache /\ calls = 0)

\* C7 witness: the first call got its coordinate from a jittered fallback tier, the
\* second was made with another spelling of the same address.
C7_Witness ==
  /\ TwoFinished /\ SameNormalized /\ prevRaw # raw
  /\ prevCalls > 0
  /\ prevResult \in {CenterCoords(j) : j \in Jitters}
  /\ lastResult = prevResult

\* C8 as claimed: two consecutive calls with the same normalised address make at
\* most one outbound call in total.
C8_AtMostOneCallInTotal ==
  (TwoFinished /\ SameNormalized) => prevCalls + calls <= 1

\* C8 as amended: two consecutive calls with the same normalised address make at
\* most five outbound calls in total (three primary attempts, the street lookup and
\* the postal-code lookup), all of them in the first call.
C8_AtMostFiveCallsAllInFirst ==
  (TwoFinished /\ SameNormalized) => (calls = 0 /\ prevCalls + calls <= 5)

\* C8 witness: the first of the two calls made all five outbound calls.
C8_Witness ==
  TwoFinished /\ SameNormalized /\ prevCalls = 5 /\ calls = 0

\* C9: whenever an outbound call is issued, at least MinDelay seconds have been
\* slept since the outbound call before it came back.
C9_MinDelayBetweenCalls ==
  [][calls' = calls + 1 => sinceCall >= MinDelay]_vars

(***************************************************************************)
(* analyzers/street_analyzer.py and scripts/update_street_colors.py        *)
(*                                                                         *)
(* Two runs of the script work on the same database. A run reads the       *)
(* committed rows (READ COMMITTED); its INSERT or UPDATE reaches the       *)
(* database when session.commit() flushes it (autoflush is off).           *)
(***************************************************************************)

\* Bounds of the street model.
MaxImports == 1

Runs == {1, 2}

StreetKeys == { <<"Main St", "Asheville">>, <<"Oak Ave", "Asheville">> }

\* Median prices per sqft the comparables of a street may have; 0: none has a price.
MedianChoices == {0, 210, 360}

\* config.COLOR_THRESHOLDS, as the script prints them
ThresholdGreen == 350
ThresholdLightGreen == 300
ThresholdYellow == 220

\* config.COLOR_THRESHOLDS
COLOR_THRESHOLDS ==
  [ green |-> ThresholdGreen, light_green |-> ThresholdLightGreen,
    yellow |-> ThresholdYellow ]

\* A ladder whose first comparison is turned round.
determine_color_flipped(t, avg_price_sqft) ==
  IF avg_price_sqft <= t.green THEN "green"
  ELSE IF avg_price_sqft >= t.light_green THEN "light_green"
  ELSE IF avg_price_sqft >= t.yellow THEN "yellow"
  ELSE "red"

\* determine_color under the thresholds t
determine_color_in(t, avg_price_sqft) ==
  IF avg_price_sqft >= t.green THEN "green"
  ELSE IF avg_price_sqft >= t.light_green THEN "light_green"
  ELSE IF avg_price_sqft >= t.yellow THEN "yellow"
  ELSE "red"

\* determine_color
determine_color(avg_price_sqft) == determine_color_in(COLOR_THRESHOLDS, avg_price_sqft)

\* Python's None where a StreetAnalysis is expected.
NoAnalysis == [median_price_sqft |-> 0, color |-> "none"]

\* analyze_single_street: None without a comparable that has a price, else the
\* analysis of the street
analyze_single_street(key) ==
  IF props[key] = 0 THEN NoAnalysis
  ELSE [median_price_sqft |-> props[key], color |-> determine_color(props[key])]

\* The orders in which the DISTINCT query may return the keys.
Orders == { o \in [1..Cardinality(StreetKeys) -> StreetKeys] :
              \A i, j \in DOMAIN o : i # j => o[i] # o[j] }

\* session.query(StreetAnalysis).filter_by(street_name, city).first(): the id of the
\* committed row of the key, 0 when there is none
Lookup(key) ==
  IF \E r \in streetRows : r.key = key
  THEN (CHOOSE r \in streetRows : r.key = key).id
  ELSE 0

\* A table without the unique index.
NoUniqueIndex(rows, key) == FALSE

\* Index idx_street_city_unique: an INSERT of a key that has a row is refused
UniqueViolation(rows, key) == \E r \in rows : r.key = key

\* The position after the loop body: the next key, or the end of the run.
Advance(w) ==
  /\ sIdx' = [sIdx EXCEPT ![w] = @ + 1]
  /\ spc' = [spc EXCEPT ![w] =
               IF sIdx[w] + 1 > Len(worklist[w]) THEN "done" ELSE "loop"]

\* Another process (an MLS import) changes the comparables of a street.
MlsImport(key, m) ==
  /\ imports < MaxImports
  /\ props[key] # m
  /\ props' = [props EXCEPT ![key] = m]
  /\ imports' = imports + 1
  /\ UNCHANGED <<streetRows, nextId, spc, worklist, sIdx, sVal, sExisting,
                 sProcessed, sFailed, lastCommit>>
  /\ UNCHANGED <<geoVars, landVars, otherVars>>

\* analyze_all_streets lines 229-244: read the distinct (street, city) pairs
BatchStart(w, order) ==
  /\ spc[w] = "off"
  /\ worklist' = [worklist EXCEPT ![w] = order]
  /\ sIdx' = [sIdx EXCEPT ![w] = 1]
  /\ spc' = [spc EXCEPT ![w] = "loop"]
  /\ UNCHANGED <<props, imports, streetRows, nextId, sVal, sExisting, sProcessed,
                 sFailed, lastCommit>>
  /\ UNCHANGED <<geoVars, landVars, otherVars>>

\* analyze_all_streets lines 247-250 and save_street_analysis lines 142-148: analyse
\* the key the loop is at; with an analysis, open a session and look the key up
BatchAnalyze(w) ==
  /\ spc[w] = "loop"
  /\ LET key == worklist[w][sIdx[w]]
         analysis == analyze_single_street(key)
     IN IF analysis = NoAnalysis
        THEN /\ Advance(w)
             /\ sProcessed' = [sProcessed EXCEPT ![w] = @ \cup {key}]
             /\ UNCHANGED <<sVal, sExisting>>
        ELSE /\ sVal' = [sVal EXCEPT ![w] = analysis]
             /\ sExisting' = [sExisting EXCEPT ![w] = Lookup(key)]
             /\ spc' = [spc EXCEPT ![w] = "commit"]
             /\ UNCHANGED <<sIdx, sProcessed>>
  /\ UNCHANGED <<props, imports, streetRows, nextId, worklist, sFailed, lastCommit>>
  /\ UNCHANGED <<geoVars, landVars, otherVars>>

\* save_street_analysis lines 150-169 and analyze_all_streets lines 253-260: update
\* the row found or add a new one, commit, close the session. An INSERT the unique
\* index refuses raises IntegrityError out of session.commit(): nothing catches it
\* before main(), which prints it and exits.
BatchCommit(w) ==
  /\ spc[w] = "commit"
  /\ LET key == worklist[w][sIdx[w]]
     IN IF sExisting[w] # 0
        THEN /\ streetRows' = { IF r.id = sExisting[w]
                                THEN [r EXCEPT !.val = sVal[w]] ELSE r : r \in streetRows }
             /\ lastCommit' = [lastCommit EXCEPT ![key] = sVal[w]]
             /\ sProcessed' = [sProcessed EXCEPT ![w] = @ \cup {key}]
             /\ Advance(w)
             /\ UNCHANGED <<nextId, sFailed>>
        ELSE IF UniqueViolation(streetRows, key)
        THEN /\ spc' = [spc EXCEPT ![w] = "aborted"]
             /\ sFailed' = [sFailed EXCEPT ![w] = @ \cup {key}]
             /\ UNCHANGED <<streetRows, nextId, lastCommit, sProcessed, sIdx>>
        ELSE /\ streetRows' = streetRows \cup
                                {[id |-> nextId + 1, key |-> key, val |-> sVal[w]]}
             /\ nextId' = nextId + 1
             /\ lastCommit' = [lastCommit EXCEPT ![key] = sVal[w]]
             /\ sProcessed' = [sProcessed EXCEPT ![w] = @ \cup {key}]
             /\ Advance(w)
             /\ UNCHANGED sFailed
  /\ UNCHANGED <<props, imports, worklist, sVal, sExisting>>
  /\ UNCHANGED <<geoVars, landVars, otherVars>>

\* The rows table street_analysis may hold when the runs start.
StreetRowChoices ==
  { {},
    { [id |-> 1, key |-> <<"Main St", "Asheville">>,
       val |-> [median_price_sqft |-> 210, color |-> "red"]] } }

StreetInit ==
  /\ props \in [StreetKeys -> MedianChoices]
  /\ imports = 0
  /\ streetRows \in StreetRowChoices
  /\ nextId = Cardinality(streetRows)
  /\ spc = [w \in Runs |-> "off"]
  /\ worklist = [w \in Runs |-> <<>>]
  /\ sIdx = [w \in Runs |-> 0]
  /\ sVal = [w \in Runs |-> NoAnalysis]
  /\ sExisting = [w \in Runs |-> 0]
  /\ sProcessed = [w \in Runs |-> {}]
  /\ sFailed = [w \in Runs |-> {}]
  /\ lastCommit = [k \in StreetKeys |->
                     IF \E r \in streetRows : r.key = k
                     THEN (CHOOSE r \in streetRows : r.key = k).val ELSE NoAnalysis]

StreetNext ==
  \/ \E k \in StreetKeys, m \in MedianChoices : MlsImport(k, m)
  \/ \E w \in Runs, o \in Orders : BatchStart(w, o)
  \/ \E w \in Runs : BatchAnalyze(w)
  \/ \E w \in Runs : BatchCommit(w)

\* The start of the street part, the other parts at rest.
StreetStart == StreetInit /\ GeoOff /\ LandOff /\ OtherOff

SpecStreet == StreetStart /\ [][StreetNext]_vars

(***************************************************************************)
(* Claims about analyzers/street_analyzer.py, checked under SpecStreet     *)
(***************************************************************************)

RowsOf(key) == {r \in streetRows : r.key = key}

\* A run has ended: the loop is through, or an exception left it.
RunEnded(w) == spc[w] \in {"done", "aborted"}

\* C3: however the lookups, inserts, updates and commits of two runs that save the
\* same (street, city) interleave, table street_analysis never holds more than one
\* row of the key.
C3_OneRowPerStreetKey ==
  \A key \in StreetKeys : Cardinality(RowsOf(key)) <= 1

\* C3 witness: both runs looked a key up before it had a row; one committed its
\* INSERT, the INSERT of the other was refused, and the key has one row.
C3_Witness ==
  \E w \in Runs, key \in StreetKeys :
     /\ key \in sFailed[w]
     /\ \E v \in Runs \ {w} : key \in sProcessed[v]
     /\ Cardinality(RowsOf(key)) = 1

\* C4: when two runs save the same key, a refused INSERT is resolved by fetching
\* the row again and updating it: no run ends on the error, no key of a run is
\* left unsaved by it, and every row holds the values of the last committed write
\* of its key.
C4_ConflictResolvedWithoutError ==
  /\ \A w \in Runs : spc[w] # "aborted" /\ sFailed[w] = {}
  /\ \A r \in streetRows : r.val = lastCommit[r.key]

\* C10: an error on one key of the worklist is confined to that key: a run in which
\* a key failed still ends through its loop, with every other key of its worklist
\* analysed and saved.
C10_ErrorConfinedToKey ==
  \A w \in Runs :
     (sFailed[w] # {} /\ RunEnded(w)) =>
        /\ spc[w] = "done"
        /\ \A i \in 1..Len(worklist[w]) :
              worklist[w][i] \in sProcessed[w] \cup sFailed[w]

(***************************************************************************)
(* analyzers/land_scorer.py over the tables of data/database.py            *)
(*                                                                         *)
(* A row is a record whose fields are the columns of its table. Prices are *)
(* whole dollars, lot sizes hundredths of an acre, coordinates hundredths  *)
(* of a degree from CITY_CENTER; 0 stands for a NULL number.               *)
(***************************************************************************)

\* Bounds of the land model.
MaxEvals == 2

\* config.LAND_FILTER
LAND_FILTER ==
  [ max_price |-> 150000,
    min_lot_size |-> 50,
    allowed_zone_colors |-> {"green", "light_green"},
    market_heat_allowed |-> {"growing", "stable"},
    min_nearby_price_sqft |-> 200,
    min_recent_sales |-> 1 ]

\* config.URGENCY_SCORING, in hundredths
URGENCY_SCORING ==
  [ zone_color |-> 30, market_heat |-> 30, price_opportunity |-> 25, recent_sales |-> 15 ]

\* config.URGENCY_LEVELS
URGENCY_LEVELS == [ urgent |-> 80, good |-> 60 ]

\* The columns of class MarketHeatZone
MarketHeatZoneColumns ==
  { "id", "zip_code", "active_listings", "sold_last_90d", "inventory_months",
    "price_change_90d", "dom_change", "status", "recommendation", "last_updated" }

\* The columns of class LandOpportunity
LandOpportunityColumns ==
  { "id", "email_id", "received_at", "address", "latitude", "longitude", "price",
    "lot_size", "zoning", "mls_number", "url", "has_well", "has_septic",
    "zone_color", "nearby_avg_price_sqft", "nearby_sales_count", "nearby_avg_dom",
    "market_status", "filter_passed", "filter_reasons", "urgency_level",
    "urgency_score", "telegram_sent", "telegram_sent_at", "created_at" }

\* The keyword arguments evaluate_land_opportunity gives the LandOpportunity
\* constructor
LandOpportunityKwargs ==
  { "property_id", "urgency_score", "urgency_level", "zone_color", "market_status",
    "nearby_avg_price_sqft", "recent_sales_count", "notes", "created_at" }

\* The declarative constructor takes a keyword only when the class has the attribute;
\* any other raises TypeError.
ConstructorAccepts(kwargs, columns) == kwargs \subseteq columns

SqftPerAcre == 43560
NearbyRadiusMiles == 5
OneYearDays == 365
RecentDays == 90

\* get_nearby_properties: the rows with coordinates, not archived, within the
\* radius, sold within the last year or active
get_nearby_properties(lat, lon, radius_miles) ==
  { h \in houses :
      /\ h.latitude # 0 /\ h.longitude # 0 /\ ~h.archived
      /\ WithinMiles(haversine_distance2(<<lat, lon>>, <<h.latitude, h.longitude>>),
                     radius_miles)
      /\ \/ (h.status = "sold" /\ h.sold_days_ago >= 0 /\ h.sold_days_ago <= OneYearDays)
         \/ h.status = "active" }

RECURSIVE SumPriceSqft(_)
SumPriceSqft(S) ==
  IF S = {} THEN 0
  ELSE LET h == CHOOSE x \in S : TRUE IN h.price_per_sqft + SumPriceSqft(S \ {h})

\* calculate_avg_nearby_price_sqft, as the fraction <<sum, count>> over the rows that
\* have a price per sqft; <<0, 1>> (0.0) when none has
calculate_avg_nearby_price_sqft(properties) ==
  LET priced == {h \in properties : h.price_per_sqft # 0}
  IN IF priced = {} THEN <<0, 1>> ELSE <<SumPriceSqft(priced), Cardinality(priced)>>

\* count_recent_sales
count_recent_sales(properties) ==
  Cardinality({ h \in properties :
                  h.status = "sold" /\ h.sold_days_ago >= 0 /\ h.sold_days_ago <= RecentDays })

\* score_zone_color
score_zone_color(color) ==
  CASE color = "green" -> 100 [] color = "light_green" -> 75
    [] color = "yellow" -> 50 [] color = "red" -> 0 [] OTHER -> 0

\* score_market_heat
score_market_heat(status) ==
  CASE status = "growing" -> 100 [] status = "stable" -> 80
    [] status = "cold" -> 50 [] status = "overheated" -> 0 [] OTHER -> 0

\* Bands of the price ratio that take in their upper end.
score_price_opportunity_inclusive(land, avg) ==
  IF avg[1] = 0 THEN 0
  ELSE LET num == land[1] * avg[2]
           den == land[2] * avg[1]
       IN IF 10 * num <= 5 * den THEN 100
          ELSE IF 10 * num <= 7 * den THEN 75
          ELSE IF 10 * num <= 9 * den THEN 50
          ELSE 0

\* score_price_opportunity on fractions: land = <<n, d>>, avg = <<n, d>>;
\* price_ratio = land / avg, compared with 0.5, 0.7, 0.9
score_price_opportunity(land, avg) ==
  IF avg[1] = 0 THEN 0
  ELSE LET num == land[1] * avg[2]
           den == land[2] * avg[1]
       IN IF 10 * num < 5 * den THEN 100
          ELSE IF 10 * num < 7 * den THEN 75
          ELSE IF 10 * num < 9 * den THEN 50
          ELSE 0

\* int(round(x / 100)): Python rounds a half to the even neighbour
RoundHundredths(x) ==
  LET q == x \div 100
      r == x % 100
  IN IF r < 50 THEN q
     ELSE IF r > 50 THEN q + 1
     ELSE IF q % 2 = 0 THEN q ELSE q + 1

\* calculate_land_score under the weights w of config.URGENCY_SCORING
calculate_land_score_in(w, zone_color, market_status, nearby_avg, land_price, recent_sales_count) ==
  LET color_score == score_zone_color(zone_color)
      heat_score == score_market_heat(market_status)
      price_score == score_price_opportunity(land_price, nearby_avg)
      activity_score == IF recent_sales_count >= 5 THEN 100
                        ELSE IF recent_sales_count >= 3 THEN 75
                        ELSE IF recent_sales_count >= 1 THEN 50
                        ELSE 0
  IN RoundHundredths(color_score * w.zone_color
                       + heat_score * w.market_heat
                       + price_score * w.price_opportunity
                       + activity_score * w.recent_sales)

\* calculate_land_score
calculate_land_score(zone_color, market_status, nearby_avg, land_price, recent_sales_count) ==
  calculate_land_score_in(URGENCY_SCORING, zone_color, market_status, nearby_avg,
                          land_price, recent_sales_count)

\* evaluate_land_opportunity lines 327-332: the level of a score
urgency_level(urgency_score) ==
  IF urgency_score >= URGENCY_LEVELS.urgent THEN "urgent"
  ELSE IF urgency_score >= URGENCY_LEVELS.good THEN "good"
  ELSE "normal"

\* evaluate_land_opportunity line 269: list_price or sale_price
PriceOf(p) == IF p.list_price # 0 THEN p.list_price ELSE p.sale_price

\* evaluate_land_opportunity lines 309-316: the parcel's price per sqft as a
\* fraction; without a building area, the price over the lot in sqft
LandPriceSqft(p, price) ==
  IF p.sqft = 0
  THEN IF p.lot_size > 0 THEN <<price * 10, p.lot_size * (SqftPerAcre \div 10)>>
       ELSE <<0, 1>>
  ELSE IF p.price_per_sqft # 0 THEN <<p.price_per_sqft, 1>> ELSE <<price, p.sqft>>

StreetRowOf(p) == {r \in streetRows : r.key = p.street}
MarketRowOf(p) == {r \in marketRows : r.zip_code = p.zip}

\* evaluate_land_opportunity lines 347-372: update the row of the parcel or add one
StoreOpportunity(p, opp) ==
  IF \E r \in landOpps : r.property_id = p.id
  THEN { IF r.property_id = p.id THEN opp ELSE r : r \in landOpps }
  ELSE landOpps \cup {opp}

\* evaluate_land_opportunity lines 265-375, once zone_color and market_status are
\* read: the filters, the score, the constructor and the save. The result is the
\* outcome and the table after the call.
EvaluateFrom(p, zone_color, market_status) ==
  LET filters == LAND_FILTER
      price == PriceOf(p)
      nearby == get_nearby_properties(p.latitude, p.longitude, NearbyRadiusMiles)
      avg == calculate_avg_nearby_price_sqft(nearby)
      recent == count_recent_sales(nearby)
      score == calculate_land_score(zone_color, market_status, avg,
                                    LandPriceSqft(p, price), recent)
      level == urgency_level(score)
      opp == [ property_id |-> p.id, urgency_score |-> score, urgency_level |-> level,
               zone_color |-> zone_color, market_status |-> market_status ]
  IN IF price = 0 \/ price > filters.max_price THEN <<"rejected", landOpps>>
     ELSE IF p.lot_size = 0 \/ p.lot_size < filters.min_lot_size THEN <<"rejected", landOpps>>
     ELSE IF zone_color \notin filters.allowed_zone_colors THEN <<"rejected", landOpps>>
     ELSE IF market_status \notin filters.market_heat_allowed THEN <<"rejected", landOpps>>
     ELSE IF nearby = {} THEN <<"rejected", landOpps>>
     ELSE IF avg[1] < filters.min_nearby_price_sqft * avg[2] THEN <<"rejected", landOpps>>
     ELSE IF recent < filters.min_recent_sales THEN <<"rejected", landOpps>>
     ELSE IF ~ConstructorAccepts(LandOpportunityKwargs, LandOpportunityColumns)
     THEN <<"raised", landOpps>>
     ELSE <<"stored", StoreOpportunity(p, opp)>>

\* An instance has the attributes that are columns of its class, and reading any
\* other raises AttributeError
HasAttr(row, name) == name \in DOMAIN row

\* evaluate_land_opportunity lines 233-263: the coordinate, the street row and the
\* market row, then the rest
EvaluateResult(p) ==
  IF p.latitude = 0 \/ p.longitude = 0 THEN <<"rejected", landOpps>>
  ELSE IF StreetRowOf(p) = {} THEN <<"rejected", landOpps>>
  ELSE IF MarketRowOf(p) = {} THEN <<"rejected", landOpps>>
  ELSE LET street_analysis == CHOOSE r \in StreetRowOf(p) : TRUE
           market_heat == CHOOSE r \in MarketRowOf(p) : TRUE
       IN IF ~HasAttr(market_heat, "market_status")
          THEN <<"raised", landOpps>>
          ELSE EvaluateFrom(p, street_analysis.val.color, market_heat.market_status)

\* evaluate_land_opportunity
evaluate_land_opportunity(p) ==
  /\ evalCount < MaxEvals
  /\ lastParcel' = p
  /\ oppsBefore' = landOpps
  /\ lastOutcome' = EvaluateResult(p)[1]
  /\ landOpps' = EvaluateResult(p)[2]
  /\ evalCount' = evalCount + 1
  /\ UNCHANGED <<marketRows, houses>>
  /\ UNCHANGED <<geoVars, streetVars, otherVars>>

\* The parcels evaluate_land_opportunity is called with: one that meets every
\* filter where the tables allow it, one above the maximum price, one without a
\* coordinate, one with a small lot, one with a sale price only, one on a street
\* and in a postal code that have no rows.
Parcels ==
  LET good == [ id |-> 1, latitude |-> 1, longitude |-> 1,
                street |-> <<"Main St", "Asheville">>, zip |-> "28801",
                list_price |-> 100000, sale_price |-> 0, lot_size |-> 100,
                sqft |-> 0, price_per_sqft |-> 0 ]
  IN { good,
       [good EXCEPT !.id = 2, !.list_price = 200000],
       [good EXCEPT !.id = 3, !.latitude = 0, !.longitude = 0],
       [good EXCEPT !.id = 4, !.lot_size = 20],
       [good EXCEPT !.id = 5, !.list_price = 0, !.sale_price = 90000],
       [good EXCEPT !.id = 6, !.street = <<"Oak Ave", "Asheville">>, !.zip = "28803"] }

NoParcel ==
  [ id |-> 0, latitude |-> 0, longitude |-> 0, street |-> <<"", "">>, zip |-> "",
    list_price |-> 0, sale_price |-> 0, lot_size |-> 0, sqft |-> 0,
    price_per_sqft |-> 0 ]

\* The rows table street_analysis may hold when evaluate_land_opportunity is called.
LandStreetRowChoices ==
  { {},
    { [id |-> 1, key |-> <<"Main St", "Asheville">>,
       val |-> [median_price_sqft |-> 360, color |-> "green"]] },
    { [id |-> 1, key |-> <<"Main St", "Asheville">>,
       val |-> [median_price_sqft |-> 210, color |-> "red"]] } }

\* The rows table market_heat_zones may hold, with the columns of class
\* MarketHeatZone that the scorer's queries use.
MarketRowChoices ==
  { {},
    { [id |-> 1, zip_code |-> "28801", sold_last_90d |-> 4, status |-> "growing"] },
    { [id |-> 1, zip_code |-> "28801", sold_last_90d |-> 4, status |-> "overheated"] } }

\* The rows table properties may hold around the parcels.
HouseChoices ==
  LET sold == [ id |-> 11, latitude |-> 2, longitude |-> 1, status |-> "sold",
                sold_days_ago |-> 30, price_per_sqft |-> 250, archived |-> FALSE ]
  IN { {},
       { sold },
       { [sold EXCEPT !.price_per_sqft = 150] },
       { [sold EXCEPT !.status = "active", !.sold_days_ago = -1] },
       { sold, [sold EXCEPT !.id = 12, !.latitude = 300] } }

LandInit ==
  /\ landOpps = {}
  /\ marketRows \in MarketRowChoices
  /\ houses \in HouseChoices
  /\ lastParcel = NoParcel
  /\ lastOutcome = "none"
  /\ oppsBefore = {}
  /\ evalCount = 0
  /\ streetRows \in LandStreetRowChoices
  /\ props = <<>> /\ imports = 0 /\ nextId = 0 /\ spc = <<>>
  /\ worklist = <<>> /\ sIdx = <<>> /\ sVal = <<>> /\ sExisting = <<>>
  /\ sProcessed = <<>> /\ sFailed = <<>> /\ lastCommit = <<>>

LandNext == \E p \in Parcels : evaluate_land_opportunity(p)

\* The start of the land part, the geocoder part at rest.
LandStart == LandInit /\ GeoOff /\ OtherOff

SpecLand == LandStart /\ [][LandNext]_vars

(***************************************************************************)
(* Claims about analyzers/land_scorer.py, checked under SpecLand           *)
(***************************************************************************)

\* The ten eligibility filters as the specification lists them, on the parcel and
\* the tables: TRUE when one of them fails.
FilterFails(p) ==
  LET price == PriceOf(p)
      nearby == get_nearby_properties(p.latitude, p.longitude, NearbyRadiusMiles)
      avg == calculate_avg_nearby_price_sqft(nearby)
  IN \/ p.latitude = 0 \/ p.longitude = 0
     \/ StreetRowOf(p) = {}
     \/ MarketRowOf(p) = {}
     \/ price = 0 \/ price > LAND_FILTER.max_price
     \/ p.lot_size = 0 \/ p.lot_size < LAND_FILTER.min_lot_size
     \/ \A r \in StreetRowOf(p) : r.val.color \notin LAND_FILTER.allowed_zone_colors
     \/ \A r \in MarketRowOf(p) : r.status \notin LAND_FILTER.market_heat_allowed
     \/ nearby = {}
     \/ avg[1] < LAND_FILTER.min_nearby_price_sqft * avg[2]
     \/ count_recent_sales(nearby) < LAND_FILTER.min_recent_sales

\* C1: when one of the ten filters fails for the parcel, evaluate_land_opportunity
\* returns a rejection and table land_opportunities is what it was before the call.
C1_FailedFilterRejectsWithoutWrite ==
  (evalCount > 0 /\ FilterFails(lastParcel)) =>
     (lastOutcome = "rejected" /\ landOpps = oppsBefore)

\* C2: table land_opportunities never holds two rows of one parcel, and an
\* evaluation of a parcel that passes every filter leaves exactly one row of the
\* parcel in it, inserted by the first such evaluation and updated by the later.
C2_OneOpportunityPerParcel ==
  /\ \A a, b \in landOpps : a.property_id = b.property_id => a = b
  /\ (evalCount > 0 /\ ~FilterFails(lastParcel)) =>
        /\ lastOutcome = "stored"
        /\ Cardinality({r \in landOpps : r.property_id = lastParcel.id}) = 1

(***************************************************************************)
(* The classification and scoring functions applied on their own           *)
(***************************************************************************)

\* Bounds of the applications.
MaxCalcs == 2

\* The configurations of config.COLOR_THRESHOLDS the model starts from: the
\* script's, one with equal thresholds, two that are not in descending order.
ThresholdChoices ==
  { COLOR_THRESHOLDS,
    [green |-> 300, light_green |-> 300, yellow |-> 300],
    [green |-> 300, light_green |-> 350, yellow |-> 220],
    [green |-> 350, light_green |-> 220, yellow |-> 300] }

\* Medians on and around the thresholds.
MedianGrid == {0, 219, 220, 299, 300, 349, 350, 400}

CalcVarsOff ==
  /\ colorIn = <<0, 0>> /\ colorOut = <<"none", "none">>
  /\ scoreIn = <<>> /\ scoreOut = <<>> /\ priceIn = <<0, 0>> /\ priceOut = <<0, FALSE>>
  /\ calcCount = 0 /\ fnIn = <<>> /\ fnOut = <<>>

\* determine_color applied to two medians m1 <= m2
ApplyColor(m1, m2) ==
  /\ calcCount < MaxCalcs
  /\ m1 <= m2
  /\ colorIn' = <<m1, m2>>
  /\ colorOut' = <<determine_color_in(thresholds, m1), determine_color_in(thresholds, m2)>>
  /\ calcCount' = calcCount + 1
  /\ UNCHANGED <<thresholds, weights, scoreIn, scoreOut, priceIn, priceOut, fnIn, fnOut>>
  /\ UNCHANGED <<geoVars, streetVars, landVars, marketVars, selVars, ioVars>>

ColorStart ==
  /\ thresholds \in ThresholdChoices
  /\ weights = <<>>
  /\ CalcVarsOff
  /\ GeoOff /\ StreetOff /\ LandOff /\ MarketOff /\ SelOff /\ IoOff

ColorNext == \E m1, m2 \in MedianGrid : ApplyColor(m1, m2)

SpecColor == ColorStart /\ [][ColorNext]_vars

\* The order of the tiers: red < yellow < light_green < green.
Tier(color) ==
  CASE color = "red" -> 0 [] color = "yellow" -> 1
    [] color = "light_green" -> 2 [] color = "green" -> 3

\* The ladder as the specification states it: green, light_green, yellow are tried
\* in that order and the first threshold the median reaches wins.
IsLadderColor(t, m, color) ==
  /\ (color = "green") = (m >= t.green)
  /\ (color = "light_green") = (m < t.green /\ m >= t.light_green)
  /\ (color = "yellow") = (m < t.green /\ m < t.light_green /\ m >= t.yellow)
  /\ (color = "red") = (m < t.green /\ m < t.light_green /\ m < t.yellow)

\* C11: under every configuration of the thresholds, the colour of the larger of
\* two medians is not a lower tier than the colour of the smaller, and each colour
\* is the first match of the ladder green, light_green, yellow, else red.
C11_ColorLadderMonotonic ==
  calcCount > 0 =>
    /\ Tier(colorOut[1]) <= Tier(colorOut[2])
    /\ IsLadderColor(thresholds, colorIn[1], colorOut[1])
    /\ IsLadderColor(thresholds, colorIn[2], colorOut[2])

\* C11 witness: under thresholds that are not in descending order, the smaller
\* median got yellow and the larger one green.
C11_Witness ==
  /\ calcCount > 0
  /\ thresholds.light_green > thresholds.green
  /\ colorIn[1] < colorIn[2]
  /\ colorOut = <<"yellow", "green">>

(***************************************************************************)
(* analyzers/market_heat.py                                                *)
(*                                                                         *)
(* Inventories are in tenths of a month, price changes in whole percent.   *)
(***************************************************************************)

\* Bounds of the market model.
MaxAnalyses == 2

\* 999.0, what calculate_inventory_months returns without sales, in tenths
InventorySentinel == 9990

\* sold_90d / 3.0: the sales of 90 days are the sales of three months
MonthsOfSales == 3

\* calculate_inventory_months, in tenths: round(active / (sold_90d / 3.0), 1).
\* Where the quotient lies halfway between two tenths, the binary value of
\* the float decides which one round() returns: tie_up says it is the upper one.
calculate_inventory_months(active, sold_90d, tie_up) ==
  IF sold_90d = 0 THEN InventorySentinel
  ELSE LET n == 10 * MonthsOfSales * active
           q == n \div sold_90d
           r == n % sold_90d
       IN IF 2 * r < sold_90d THEN q
          ELSE IF 2 * r > sold_90d THEN q + 1
          ELSE IF tie_up THEN q + 1 ELSE q

ColdAbove == 120
StableFrom == 60
OverheatedAbove == 15

\* A status that turns cold when the days on market grow.
determine_market_status_by_dom(inventory, price_change, dom_change) ==
  IF inventory > ColdAbove \/ dom_change > 0 THEN "cold"
  ELSE IF inventory >= StableFrom THEN "stable"
  ELSE IF price_change > OverheatedAbove THEN "overheated"
  ELSE "growing"

\* determine_market_status, on an inventory in tenths
determine_market_status(inventory, price_change, dom_change) ==
  IF inventory > ColdAbove THEN "cold"
  ELSE IF inventory >= StableFrom THEN "stable"
  ELSE IF price_change > OverheatedAbove THEN "overheated"
  ELSE "growing"

\* The keyword arguments analyze_market_heat_by_zip gives the MarketHeatZone
\* constructor
MarketHeatZoneKwargs ==
  { "zip_code", "active_listings", "sold_last_90d", "inventory_months",
    "price_change_90d", "dom_change_90d", "market_status", "recommendation",
    "last_updated" }

\* An analysis that goes on without sales.
InsufficientDataNever(sold_count) == FALSE

\* analyze_market_heat_by_zip lines 263-265: if sold_count == 0: return None
InsufficientData(sold_count) == sold_count = 0

\* analyze_market_heat_by_zip lines 292-316: update the row of the postal code or
\* add one
StoreMarketHeat(heat_zone) ==
  IF \E r \in marketRows : r.zip_code = heat_zone.zip_code
  THEN { IF r.zip_code = heat_zone.zip_code THEN [heat_zone EXCEPT !.id = r.id] ELSE r :
           r \in marketRows }
  ELSE marketRows \cup {heat_zone}

NoMarketResult == [inventory |-> -1, status |-> "none", outcome |-> "none"]

\* analyze_market_heat_by_zip for the postal code 28801, on the counts and the
\* changes its queries return
analyze_market_heat_by_zip(active_count, sold_count, price_change, tie_up) ==
  /\ mktCount < MaxAnalyses
  /\ mktIn' = [active |-> active_count, sold |-> sold_count, price_change |-> price_change]
  /\ mktBefore' = marketRows
  /\ mktCount' = mktCount + 1
  /\ IF InsufficientData(sold_count)
     THEN /\ mktOut' = [NoMarketResult EXCEPT !.outcome = "unavailable"]
          /\ UNCHANGED marketRows
     ELSE LET inventory_months == calculate_inventory_months(active_count, sold_count, tie_up)
              market_status == determine_market_status(inventory_months, price_change, 0)
              heat_zone == [ id |-> Cardinality(marketRows) + 1, zip_code |-> "28801",
                             sold_last_90d |-> sold_count,
                             inventory_months |-> inventory_months,
                             market_status |-> market_status ]
          IN IF ~ConstructorAccepts(MarketHeatZoneKwargs, MarketHeatZoneColumns)
             THEN /\ mktOut' = [inventory |-> inventory_months, status |-> market_status,
                                outcome |-> "raised"]
                  /\ UNCHANGED marketRows
             ELSE /\ mktOut' = [inventory |-> inventory_months, status |-> market_status,
                                outcome |-> "stored"]
                  /\ marketRows' = StoreMarketHeat(heat_zone)
  /\ UNCHANGED <<landOpps, houses, lastParcel, lastOutcome, oppsBefore, evalCount>>
  /\ UNCHANGED <<geoVars, streetVars, calcVars, selVars, ioVars>>

\* The counts and the price changes the queries of an analysis may return.
ActiveCounts == {0, 20, 40, 119, 121, 245}
SoldCounts == {0, 4, 20, 60, 61}
PriceChanges == {0, 15, 16}

MarketStart ==
  /\ marketRows \in MarketRowChoices
  /\ mktIn = [active |-> 0, sold |-> 0, price_change |-> 0]
  /\ mktOut = NoMarketResult
  /\ mktBefore = marketRows
  /\ mktCount = 0
  /\ landOpps = {} /\ houses = {} /\ lastParcel = <<>> /\ lastOutcome = "none"
  /\ oppsBefore = {} /\ evalCount = 0
  /\ GeoOff /\ StreetOff /\ CalcOff /\ SelOff /\ IoOff

MarketNext ==
  \E a \in ActiveCounts, s \in SoldCounts, c \in PriceChanges, up \in BOOLEAN :
     analyze_market_heat_by_zip(a, s, c, up)

SpecMarket == MarketStart /\ [][MarketNext]_vars

(***************************************************************************)
(* Claims about analyzers/market_heat.py, checked under SpecMarket         *)
(***************************************************************************)

\* The status the specification assigns: the inventory active / (sold / 3) is
\* compared with 12 and with 6 as it is, the price change with 15.
SpecifiedStatus(active, sold, price_change) ==
  IF 3 * active > 12 * sold THEN "cold"
  ELSE IF 3 * active >= 6 * sold THEN "stable"
  ELSE IF price_change > 15 THEN "overheated"
  ELSE "growing"

\* C12: for every active count and every sold count >= 1 the status is cold exactly
\* when active / (sold / 3) > 12, stable exactly when it is between 6 and 12, and
\* below 6 overheated exactly when the price change is above 15, growing otherwise.
C12_StatusFollowsInventory ==
  (mktCount > 0 /\ mktIn.sold >= 1) =>
     mktOut.status = SpecifiedStatus(mktIn.active, mktIn.sold, mktIn.price_change)

\* C15: an analysis of a postal code without a sale in 90 days returns None and
\* leaves table market_heat_zones as it was; an analysis that goes on to build a
\* record has a sold count of at least 1 and an inventory that is not the 999.0
\* sentinel, and so has every row it writes.
C15_NoSalesNoRecord ==
  /\ (mktCount > 0 /\ mktIn.sold = 0) =>
        (mktOut.outcome = "unavailable" /\ marketRows = mktBefore)
  /\ mktOut.outcome \in {"raised", "stored"} =>
        (mktIn.sold >= 1 /\ mktOut.inventory # InventorySentinel)
  /\ \A r \in marketRows \ mktBefore :
        r.sold_last_90d >= 1 /\ r.inventory_months # InventorySentinel

\* C15 witness: the postal code had a row, its listings are active but nothing was
\* sold, and the analysis has returned None.
C15_Witness ==
  /\ mktCount > 0 /\ mktIn.sold = 0 /\ mktIn.active > 0
  /\ mktOut.outcome = "unavailable"
  /\ mktBefore # {} /\ marketRows = mktBefore

(***************************************************************************)
(* calculate_land_score and the urgency level, applied on their own        *)
(***************************************************************************)

\* The configurations of config.URGENCY_SCORING the model starts from, in
\* hundredths: the weights of the specification's scenario, weights that sum to 2,
\* weights that sum to a half.
WeightChoices ==
  { URGENCY_SCORING,
    [ zone_color |-> 50, market_heat |-> 50, price_opportunity |-> 50, recent_sales |-> 50 ],
    [ zone_color |-> 20, market_heat |-> 10, price_opportunity |-> 15, recent_sales |-> 5 ] }

ZoneColors == {"green", "light_green", "yellow", "red", "purple"}
MarketStatuses == {"growing", "stable", "cold", "overheated", "unknown"}

\* The parcel's price per sqft and the nearby average, as pairs <<land, avg>> of
\* fractions: ratios 0.4, 0.5, 0.6, 0.8, 0.96, and no nearby average.
PricePairs ==
  { <<<<100, 1>>, <<250, 1>>>>, <<<<125, 1>>, <<250, 1>>>>, <<<<150, 1>>, <<250, 1>>>>,
    <<<<200, 1>>, <<250, 1>>>>, <<<<240, 1>>, <<250, 1>>>>, <<<<100, 1>>, <<0, 1>>>> }

RecentSalesCounts == {0, 1, 3, 5}

NoScoreIn ==
  [ zone_color |-> "none", market_status |-> "none", land |-> <<0, 1>>, avg |-> <<0, 1>>,
    recent |-> 0 ]

\* calculate_land_score applied to its arguments, and the level of the result
ApplyScore(color, status, pair, recent) ==
  /\ calcCount < MaxCalcs
  /\ scoreIn' = [ zone_color |-> color, market_status |-> status, land |-> pair[1],
                  avg |-> pair[2], recent |-> recent ]
  /\ LET urgency_score ==
           calculate_land_score_in(weights, color, status, pair[2], pair[1], recent)
     IN scoreOut' = [score |-> urgency_score, level |-> urgency_level(urgency_score)]
  /\ calcCount' = calcCount + 1
  /\ UNCHANGED <<thresholds, weights, colorIn, colorOut, priceIn, priceOut, fnIn, fnOut>>
  /\ UNCHANGED <<geoVars, streetVars, landVars, marketVars, selVars, ioVars>>

ScoreStart ==
  /\ weights \in WeightChoices
  /\ thresholds = <<>>
  /\ colorIn = <<0, 0>> /\ colorOut = <<"none", "none">>
  /\ scoreIn = NoScoreIn /\ scoreOut = [score |-> 0, level |-> "none"]
  /\ priceIn = <<0, 0>> /\ priceOut = <<0, FALSE>>
  /\ calcCount = 0 /\ fnIn = <<>> /\ fnOut = <<>>
  /\ GeoOff /\ StreetOff /\ LandOff /\ MarketOff /\ SelOff /\ IoOff

ScoreNext ==
  \E color \in ZoneColors, status \in MarketStatuses, pair \in PricePairs,
     recent \in RecentSalesCounts : ApplyScore(color, status, pair, recent)

SpecScore == ScoreStart /\ [][ScoreNext]_vars

\* The factor tables of the specification.
ZoneFactor(color) ==
  CASE color = "green" -> 100 [] color = "light_green" -> 75
    [] color = "yellow" -> 50 [] OTHER -> 0

MarketFactor(status) ==
  CASE status = "growing" -> 100 [] status = "stable" -> 80
    [] status = "cold" -> 50 [] OTHER -> 0

\* 100 / 75 / 50 / 0 for a ratio land / avg below 0.5 / 0.7 / 0.9 / otherwise
PriceFactor(land, avg) ==
  IF avg[1] = 0 THEN 0
  ELSE IF 2 * land[1] * avg[2] < land[2] * avg[1] THEN 100
  ELSE IF 10 * land[1] * avg[2] < 7 * land[2] * avg[1] THEN 75
  ELSE IF 10 * land[1] * avg[2] < 9 * land[2] * avg[1] THEN 50
  ELSE 0

ActivityFactor(recent) ==
  IF recent >= 5 THEN 100 ELSE IF recent >= 3 THEN 75 ELSE IF recent >= 1 THEN 50 ELSE 0

\* The weighted sum of the factors, in hundredths.
WeightedSum(w, in) ==
  ZoneFactor(in.zone_color) * w.zone_color
    + MarketFactor(in.market_status) * w.market_heat
    + PriceFactor(in.land, in.avg) * w.price_opportunity
    + ActivityFactor(in.recent) * w.recent_sales

\* C13: every urgency score is an integer from 0 to 100, whatever the zone colour,
\* the market status, the price ratio, the recent-sale count and the weights.
C13_ScoreBetween0And100 ==
  calcCount > 0 => (scoreOut.score \in Int /\ scoreOut.score >= 0 /\ scoreOut.score <= 100)

\* C18: the urgency score is the weighted sum of the four factors of the
\* specification's tables rounded to a nearest integer, and the level is urgent
\* from the urgent threshold, good from the good threshold, else normal.
C18_ScoreIsRoundedWeightedSum ==
  calcCount > 0 =>
    /\ 100 * scoreOut.score - WeightedSum(weights, scoreIn) <= 50
    /\ WeightedSum(weights, scoreIn) - 100 * scoreOut.score <= 50
    /\ (scoreOut.level = "urgent") = (scoreOut.score >= URGENCY_LEVELS.urgent)
    /\ (scoreOut.level = "good") =
          (scoreOut.score < URGENCY_LEVELS.urgent /\ scoreOut.score >= URGENCY_LEVELS.good)
    /\ (scoreOut.level = "normal") = (scoreOut.score < URGENCY_LEVELS.good)

\* C18 witness: under the scenario's weights, a light-green zone in a stable
\* market, a price ratio of exactly 0.5 and three recent sales give
\* 22.5 + 24 + 18.75 + 11.25 = 76.5, a score of 76 and the level good.
C18_Witness ==
  /\ calcCount > 0 /\ weights = URGENCY_SCORING
  /\ scoreIn.zone_color = "light_green" /\ scoreIn.market_status = "stable"
  /\ scoreIn.land = <<125, 1>> /\ scoreIn.avg = <<250, 1>> /\ scoreIn.recent = 3
  /\ scoreOut = [score |-> 76, level |-> "good"]

(***************************************************************************)
(* The price test of evaluate_land_opportunity, applied on its own         *)
(***************************************************************************)

\* The list prices and sale prices a parcel may carry; 0: the column is NULL.
PriceChoices ==
  {0, 25000, 50000, 75000, 100000, 125000, 150000, 175000, 200000, 225000}

\* evaluate_land_opportunity lines 268-271: the price of the parcel and the test
\* against LAND_FILTER max_price
ApplyPrice(list_price, sale_price) ==
  /\ calcCount < MaxCalcs
  /\ priceIn' = <<list_price, sale_price>>
  /\ LET property_obj == [NoParcel EXCEPT !.list_price = list_price,
                                          !.sale_price = sale_price]
         price == PriceOf(property_obj)
     IN priceOut' = <<price, ~(price = 0 \/ price > LAND_FILTER.max_price)>>
  /\ calcCount' = calcCount + 1
  /\ UNCHANGED <<thresholds, weights, colorIn, colorOut, scoreIn, scoreOut, fnIn, fnOut>>
  /\ UNCHANGED <<geoVars, streetVars, landVars, marketVars, selVars, ioVars>>

PriceStart ==
  /\ thresholds = <<>> /\ weights = <<>>
  /\ colorIn = <<0, 0>> /\ colorOut = <<"none", "none">>
  /\ scoreIn = <<>> /\ scoreOut = <<>>
  /\ priceIn = <<0, 0>> /\ priceOut = <<0, FALSE>>
  /\ calcCount = 0 /\ fnIn = <<>> /\ fnOut = <<>>
  /\ GeoOff /\ StreetOff /\ LandOff /\ MarketOff /\ SelOff /\ IoOff

PriceNext == \E list_price, sale_price \in PriceChoices : ApplyPrice(list_price, sale_price)

SpecPrice == PriceStart /\ [][PriceNext]_vars

\* The price the specification takes: the sale price if present, else the list price.
SpecifiedPrice(list_price, sale_price) ==
  IF sale_price # 0 THEN sale_price ELSE list_price

\* C17: the price tested against the maximum is the sale price whenever there is
\* one and the list price only when there is none; a parcel with neither is
\* rejected, and so is one whose price is above the maximum.
C17_SalePriceFirst ==
  calcCount > 0 =>
    /\ priceOut[1] = SpecifiedPrice(priceIn[1], priceIn[2])
    /\ priceOut[2] = (SpecifiedPrice(priceIn[1], priceIn[2]) # 0
                        /\ SpecifiedPrice(priceIn[1], priceIn[2]) <= LAND_FILTER.max_price)

(***************************************************************************)
(* analyzers/street_analyzer.py: the analysis of one street from its rows  *)
(*                                                                         *)
(* Prices per sqft are even whole dollars, so that the median of an even   *)
(* number of them is whole; 0 stands for NULL.                             *)
(***************************************************************************)

\* Bounds of the analysis of one street.
MaxSelects == 2

StreetYearDays == 365
MinSoldSample == 3

\* A selection whose fallback keeps the sold rows it found.
get_properties_by_street_mixed(rows) ==
  LET sold == { r \in rows : r.status = "sold" /\ r.sold_days_ago >= 0
                               /\ r.sold_days_ago <= StreetYearDays /\ ~r.archived }
  IN IF Cardinality(sold) >= MinSoldSample THEN sold
     ELSE sold \cup { r \in rows : r.status = "active" /\ ~r.archived }

\* get_properties_by_street, on the rows of table properties of the street: the
\* rows sold within the last year when there are at least 3, else the active rows
get_properties_by_street(rows) ==
  LET sold == { r \in rows : r.status = "sold" /\ r.sold_days_ago >= 0
                               /\ r.sold_days_ago <= StreetYearDays /\ ~r.archived }
  IN IF Cardinality(sold) >= MinSoldSample THEN sold
     ELSE { r \in rows : r.status = "active" /\ ~r.archived }

\* The prices per sqft of the rows in ascending order.
RECURSIVE SortedPrices(_)
SortedPrices(P) ==
  IF P = {} THEN <<>>
  ELSE LET lo == CHOOSE r \in P : \A q \in P : r.price_per_sqft <= q.price_per_sqft
       IN <<lo.price_per_sqft>> \o SortedPrices(P \ {lo})

\* np.median
Median(sorted) ==
  LET n == Len(sorted)
  IN IF n % 2 = 1 THEN sorted[(n + 1) \div 2]
     ELSE (sorted[n \div 2] + sorted[n \div 2 + 1]) \div 2

\* days_on_market is None (the column is nullable)
NoDom == -1

\* avg_dom is None; an average is kept as <<sum, count>>
NoAvg == <<0, 0>>

\* Python's {} where the metrics are expected.
NoMetrics ==
  [ median_price_sqft |-> 0, sample_size |-> 0,
    avg_dom |-> NoAvg, min_dom |-> NoDom, max_dom |-> NoDom ]

RECURSIVE SumDom(_)
\* sum(doms), the numerator of np.mean(doms)
SumDom(D) ==
  IF D = {} THEN 0
  ELSE LET r == CHOOSE q \in D : TRUE IN r.days_on_market + SumDom(D \ {r})

\* min(doms)
MinDom(D) == CHOOSE d \in {r.days_on_market : r \in D} :
               \A r \in D : d <= r.days_on_market

\* max(doms)
MaxDom(D) == CHOOSE d \in {r.days_on_market : r \in D} :
               \A r \in D : d >= r.days_on_market

\* calculate_street_metrics lines 120-130: the days on market of the rows that pass
\* `if p.days_on_market`
DomMetrics(properties) ==
  LET doms == { r \in properties : r.days_on_market # NoDom /\ r.days_on_market # 0 }
  IN IF doms # {}
     THEN [ avg_dom |-> <<SumDom(doms), Cardinality(doms)>>,
            min_dom |-> MinDom(doms), max_dom |-> MaxDom(doms) ]
     ELSE [ avg_dom |-> NoAvg, min_dom |-> NoDom, max_dom |-> NoDom ]

\* Metrics that report a median of 0 where no row has a price.
calculate_street_metrics_zero(properties) ==
  LET priced == { r \in properties : r.price_per_sqft # 0 }
      dom == DomMetrics(properties)
  IN [ median_price_sqft |-> IF priced = {} THEN 0 ELSE Median(SortedPrices(priced)),
       sample_size |-> Cardinality(properties),
       avg_dom |-> dom.avg_dom, min_dom |-> dom.min_dom, max_dom |-> dom.max_dom ]

\* calculate_street_metrics: {} when no row has a price per sqft
calculate_street_metrics(properties) ==
  LET priced == { r \in properties : r.price_per_sqft # 0 }
      dom == DomMetrics(properties)
  IN IF priced = {} THEN NoMetrics
     ELSE [ median_price_sqft |-> Median(SortedPrices(priced)),
            sample_size |-> Cardinality(properties),
            avg_dom |-> dom.avg_dom, min_dom |-> dom.min_dom, max_dom |-> dom.max_dom ]

\* analyze_single_street lines 186-217, on the rows get_properties_by_street returned
StreetAnalysisOf(properties) ==
  IF properties = {} THEN NoAnalysis
  ELSE LET metrics == calculate_street_metrics(properties)
       IN IF metrics = NoMetrics THEN NoAnalysis
          ELSE [ median_price_sqft |-> metrics.median_price_sqft,
                 color |-> determine_color(metrics.median_price_sqft) ]

\* The street of the rows.
TheStreet == <<"Main St", "Asheville">>

\* analyze_all_streets lines 247-252 for one street, no other run at work: analyse
\* it and, with an analysis, save it
ClassifyStreet ==
  /\ selCount < MaxSelects
  /\ selCount' = selCount + 1
  /\ selBefore' = streetRows
  /\ selected' = get_properties_by_street(comps)
  /\ selResult' = StreetAnalysisOf(selected')
  /\ IF selResult' = NoAnalysis
     THEN UNCHANGED <<streetRows, nextId>>
     ELSE IF Lookup(TheStreet) # 0
     THEN /\ streetRows' = { IF r.id = Lookup(TheStreet)
                             THEN [r EXCEPT !.val = selResult'] ELSE r : r \in streetRows }
          /\ UNCHANGED nextId
     ELSE /\ streetRows' = streetRows \cup
                             {[id |-> nextId + 1, key |-> TheStreet, val |-> selResult']}
          /\ nextId' = nextId + 1
  /\ UNCHANGED <<comps, props, imports, spc, worklist, sIdx, sVal, sExisting,
                 sProcessed, sFailed, lastCommit>>
  /\ UNCHANGED <<geoVars, landVars, calcVars, marketVars, ioVars>>

\* Another process (an MLS import) replaces the rows of the street.
ReplaceComps(rows) ==
  /\ selCount < MaxSelects
  /\ selCount > 0
  /\ comps # rows
  /\ comps' = rows
  /\ UNCHANGED <<selected, selResult, selBefore, selCount>>
  /\ UNCHANGED <<geoVars, streetVars, landVars, calcVars, marketVars, ioVars>>

\* The rows the street may have: three sold within the year (one without a price),
\* one sold longer ago, one archived, two active (one without a price).
CompPool ==
  LET sold == [ id |-> 1, status |-> "sold", sold_days_ago |-> 30, archived |-> FALSE,
                price_per_sqft |-> 200, days_on_market |-> 12 ]
  IN { sold,
       [sold EXCEPT !.id = 2, !.sold_days_ago = 100, !.price_per_sqft = 360],
       [sold EXCEPT !.id = 3, !.sold_days_ago = 300, !.price_per_sqft = 0],
       [sold EXCEPT !.id = 4, !.sold_days_ago = 400, !.price_per_sqft = 400],
       [sold EXCEPT !.id = 5, !.archived = TRUE],
       [sold EXCEPT !.id = 6, !.status = "active", !.sold_days_ago = -1,
                    !.price_per_sqft = 0],
       [sold EXCEPT !.id = 7, !.status = "active", !.sold_days_ago = -1,
                    !.price_per_sqft = 320] }

SelStart ==
  /\ streetRows \in StreetRowChoices
  /\ comps \in SUBSET CompPool
  /\ selected = {}
  /\ selResult = NoAnalysis
  /\ selBefore = streetRows
  /\ selCount = 0
  /\ nextId = Cardinality(streetRows)
  /\ props = <<>> /\ imports = 0 /\ spc = <<>> /\ worklist = <<>> /\ sIdx = <<>>
  /\ sVal = <<>> /\ sExisting = <<>> /\ sProcessed = <<>> /\ sFailed = <<>>
  /\ lastCommit = <<>>
  /\ GeoOff /\ LandOff /\ CalcOff /\ MarketOff /\ IoOff

SelNext ==
  \/ ClassifyStreet
  \/ \E rows \in SUBSET CompPool : ReplaceComps(rows)

SpecSelect == SelStart /\ [][SelNext]_vars

(***************************************************************************)
(* Claims about the analysis of one street, checked under SpecSelect       *)
(***************************************************************************)

\* The rows the last analysis selected from: comps as it was at the analysis.
NoPriceIn(rows) == \A r \in rows : r.price_per_sqft = 0

\* C14: analysing a street whose selected rows are none, or of which none has a
\* price per sqft, returns None and leaves table street_analysis as it was, an
\* earlier row of the street included.
C14_NoComparablesNoRecord ==
  (selCount > 0 /\ NoPriceIn(selected)) =>
     (selResult = NoAnalysis /\ streetRows = selBefore)

\* C14 witness: the street had a row, the selection returned rows of which none has
\* a price, and the analysis returned None and left the row as it was.
C14_Witness ==
  /\ selCount > 0 /\ selected # {} /\ NoPriceIn(selected)
  /\ selResult = NoAnalysis
  /\ selBefore # {} /\ streetRows = selBefore

\* The two sets the specification selects from: the rows of the street sold within
\* the last 365 days, and its active rows, archived rows left out of both.
SoldInYear(rows) ==
  { r \in rows : ~r.archived /\ r.status = "sold"
                   /\ r.sold_days_ago >= 0 /\ r.sold_days_ago <= 365 }

ActiveOn(rows) == { r \in rows : ~r.archived /\ r.status = "active" }

\* C19: the selection of an analysis is the rows sold within the last 365 days when
\* there are at least 3 of them; with fewer it is exactly the active rows, the sold
\* rows found being dropped; sold and active rows are never returned together.
C19_SoldOrActiveNeverMixed ==
  [][selCount' = selCount + 1 =>
       /\ Cardinality(SoldInYear(comps)) >= 3 => selected' = SoldInYear(comps)
       /\ Cardinality(SoldInYear(comps)) < 3 => selected' = ActiveOn(comps)
       /\ \A r, q \in selected' : r.status = q.status]_vars

\* C19 witness: the street has two rows sold within the year and two active ones,
\* and the analysis selected the two active rows only.
C19_Witness ==
  /\ selCount > 0
  /\ Cardinality(SoldInYear(comps)) = 2
  /\ Cardinality(ActiveOn(comps)) = 2
  /\ selected = ActiveOn(comps)

\* What control does once a pass of the primary loop has ended without a result.
InFallback == pc \in {"street", "zip", "center"}

\* C16: a resolve makes at most 3 calls to the primary geocoder; every call that was
\* followed by another one timed out; while the primary loop is still running all
\* its calls so far timed out and fewer than 3 were made; a call that ended in a
\* service error, in nothing found or in a coordinate outside the radius is the
\* last one, and the fallback chain is running after it.
C16_PrimaryRetriedOnlyOnTimeout ==
  /\ Len(primaryLog) <= 3
  /\ \A i \in 1..(Len(primaryLog) - 1) : primaryLog[i] = "timeout"
  /\ pc = "primary" =>
       /\ Len(primaryLog) < 3
       /\ \A i \in 1..Len(primaryLog) : primaryLog[i] = "timeout"
  /\ (primaryLog # <<>> /\ primaryLog[Len(primaryLog)] # "timeout") => InFallback
  /\ Len(primaryLog) = 3 => InFallback

\* C16 witness: three timeouts in a row, and the street tier of the fallback is next.
C16_Witness ==
  /\ pc = "street"
  /\ primaryLog = <<"timeout", "timeout", "timeout">>

\* C20: when a resolve has returned a coordinate it did not find in the cache, the
\* file holds exactly the entries of the dict in memory.
C20_DiskHoldsWhatMemoryHolds ==
  (pc = "idle" /\ finished > 0 /\ lastStatus = "returned" /\ ~fromCache
     /\ lastResult # None)
    => (diskState = "ok" /\ disk = cache)

\* A step that is the cache lookup of a call of geocode_address.
IsLookupStep == pc = "idle" /\ (pc' # "idle" \/ finished' # finished)

\* C21: a call that finds no cache in memory and a file that is missing, unreadable
\* or corrupt goes on with an empty cache as on a miss, no exception leaves the
\* call, and once the cache is in memory every later call uses that copy.
C21_BadCacheFileStartsEmpty ==
  [][IsLookupStep =>
       /\ lastStatus' # "raised"
       /\ loaded'
       /\ (~loaded /\ diskState # "ok") =>
            (cache' = EmptyCache /\ pc' = "primary" /\ ~fromCache')
       /\ loaded => cache' = cache]_vars

\* The ways a lookup of a fallback tier ends without a plausible coordinate.
TierFailures == {"timeout", "error", "implausible", "not_found"}

\* C22: the street tier starts only after the primary geocoder failed; the
\* postal-code tier only after the street tier failed and only for an address with
\* a 5-digit code; the centre tier only after the street tier failed and, for an
\* address with a 5-digit code, the postal-code tier failed too; a call that has
\* returned has no tier left to try.
C22_FallbackTiersInOrder ==
  /\ pc \in {"idle", "primary"} => tierLog = <<>>
  /\ pc = "street" => (tierLog = <<>> /\ primaryLog # <<>>)
  /\ pc = "zip" =>
       /\ HasZip(Normalize(raw))
       /\ Len(tierLog) = 1
       /\ tierLog[1][1] = "street" /\ tierLog[1][2] \in TierFailures
  /\ pc = "center" =>
       /\ Len(tierLog) = (IF HasZip(Normalize(raw)) THEN 2 ELSE 1)
       /\ tierLog[1][1] = "street"
       /\ Len(tierLog) = 2 => tierLog[2][1] = "zip"
       /\ \A i \in 1..Len(tierLog) : tierLog[i][2] \in TierFailures

\* C22 witness: the street lookup found nothing, the postal-code lookup found a
\* place outside the radius, and the centre tier is next.
C22_Witness ==
  /\ pc = "center"
  /\ tierLog = << <<"street", "not_found">>, <<"zip", "implausible">> >>

\* C28: through every step of geocode_address and batch_geocode an address that
\* is in the cache stays in it with the coordinate it has, in the dict in memory
\* and in the file alike.
C28_CacheEntriesWriteOnce ==
  [][/\ \A k \in DOMAIN cache : k \in DOMAIN cache' /\ cache'[k] = cache[k]
     /\ \A k \in DOMAIN disk : k \in DOMAIN disk' /\ disk'[k] = disk[k]]_vars

\* C28 witness: a batch of two spellings of one address has ended; the first got
\* the jittered centre from the fallback chain, the second got the same coordinate
\* from the cache, where it still is.
C28_Witness ==
  /\ bpc = "none" /\ Len(batchResults) = 2
  /\ batchResults[1] \in {CenterCoords(j) : j \in Jitters}
  /\ batchResults[2] = batchResults[1]
  /\ raw \in DOMAIN cache /\ cache[raw] = batchResults[1]

(***************************************************************************)
(* The street record, computed from the selected rows                      *)
(***************************************************************************)

\* The sample size that gives full confidence.
FullConfidenceSample == 10

\* A confidence that grows with the sample without limit.
calculate_confidence_uncapped(sample_size) == sample_size * 10

\* calculate_confidence, in hundredths: round(min(sample_size / 10.0, 1.0), 2). The
\* value is held in thousandths and rounded half-even to hundredths.
calculate_confidence(sample_size) ==
  LET thousandths == IF sample_size * 100 < FullConfidenceSample * 100
                     THEN sample_size * 100 ELSE FullConfidenceSample * 100
      q == thousandths \div 10
      rest == thousandths % 10
  IN IF rest > 5 \/ (rest = 5 /\ q % 2 = 1) THEN q + 1 ELSE q

\* analyze_single_street returned None
NoStreetRecord ==
  [ median_price_sqft |-> 0, color |-> "none", sample_size |-> 0, confidence_score |-> 0,
    avg_dom |-> NoAvg, min_dom |-> NoDom, max_dom |-> NoDom ]

\* analyze_single_street lines 186-215: the StreetAnalysis object built from the
\* rows get_properties_by_street returned
StreetRecordOf(properties) ==
  IF properties = {} THEN NoStreetRecord
  ELSE LET metrics == calculate_street_metrics(properties)
       IN IF metrics = NoMetrics THEN NoStreetRecord
          ELSE [ median_price_sqft |-> metrics.median_price_sqft,
                 color |-> determine_color(metrics.median_price_sqft),
                 sample_size |-> metrics.sample_size,
                 confidence_score |-> calculate_confidence(metrics.sample_size),
                 avg_dom |-> metrics.avg_dom,
                 min_dom |-> metrics.min_dom,
                 max_dom |-> metrics.max_dom ]

\* Rows a selection may hold: with and without a price, with days on market of 0,
\* of more than 0 and without.
MetricsRow(i, price, dom) == [id |-> i, price_per_sqft |-> price, days_on_market |-> dom]

FirstRows ==
  { MetricsRow(1, 200, 0), MetricsRow(2, 300, 30), MetricsRow(3, 0, NoDom),
    MetricsRow(4, 250, NoDom), MetricsRow(5, 0, 10) }

MoreRows(n) == { MetricsRow(i, 200 + 10 * i, i) : i \in 6..n }

\* The selections: every set of the first five rows, alone or with rows 6 to 9, 6 to
\* 10 or 6 to 11.
Selections ==
  { F \cup M : F \in SUBSET FirstRows, M \in {{}, MoreRows(9), MoreRows(10), MoreRows(11)} }

\* analyze_single_street applied to a selection
ApplyStreetRecord(properties) ==
  /\ calcCount < MaxCalcs
  /\ fnIn' = properties
  /\ fnOut' = StreetRecordOf(properties)
  /\ calcCount' = calcCount + 1
  /\ UNCHANGED <<thresholds, weights, colorIn, colorOut, scoreIn, scoreOut, priceIn,
                 priceOut>>
  /\ UNCHANGED <<geoVars, streetVars, landVars, marketVars, selVars, ioVars>>

RecordStart ==
  /\ thresholds = <<>> /\ weights = <<>>
  /\ colorIn = <<0, 0>> /\ colorOut = <<"none", "none">>
  /\ scoreIn = <<>> /\ scoreOut = <<>>
  /\ priceIn = <<0, 0>> /\ priceOut = <<0, FALSE>>
  /\ calcCount = 0 /\ fnIn = {} /\ fnOut = NoStreetRecord
  /\ GeoOff /\ StreetOff /\ LandOff /\ MarketOff /\ SelOff /\ IoOff

RecordNext == \E properties \in Selections : ApplyStreetRecord(properties)

SpecRecord == RecordStart /\ [][RecordNext]_vars

\* C23: for a selection with at least one price per sqft there is a record, and its
\* confidence is min(n / 10, 1.0) for the n rows of the selection, in hundredths: from
\* 0 to 100, and 100 for 10 rows or more.
C23_ConfidenceFromSampleSize ==
  (calcCount > 0 /\ \E r \in fnIn : r.price_per_sqft # 0) =>
     /\ fnOut # NoStreetRecord
     /\ fnOut.sample_size = Cardinality(fnIn)
     /\ fnOut.confidence_score =
          (IF Cardinality(fnIn) >= 10 THEN 100 ELSE 10 * Cardinality(fnIn))
     /\ fnOut.confidence_score >= 0 /\ fnOut.confidence_score <= 100

\* C23 witness: eleven rows, one of them without a price; the confidence is 1.0.
C23_Witness ==
  /\ calcCount > 0
  /\ Cardinality(fnIn) = 11
  /\ \E r \in fnIn : r.price_per_sqft = 0
  /\ fnOut.confidence_score = 100

\* The rows of a selection that have a days-on-market value, 0 included.
WithDom(rows) == { r \in rows : r.days_on_market # NoDom }

\* C24: the record's average, minimum and maximum days on market are those of the
\* selected rows that have a value, 0 days included, and the three are null
\* together exactly when no selected row has a value.
C24_DomOverRowsWithValue ==
  (calcCount > 0 /\ fnOut # NoStreetRecord) =>
     IF WithDom(fnIn) = {}
     THEN fnOut.avg_dom = NoAvg /\ fnOut.min_dom = NoDom /\ fnOut.max_dom = NoDom
     ELSE /\ fnOut.avg_dom # NoAvg
          /\ fnOut.avg_dom[1] * Cardinality(WithDom(fnIn))
               = SumDom(WithDom(fnIn)) * fnOut.avg_dom[2]
          /\ fnOut.min_dom = MinDom(WithDom(fnIn))
          /\ fnOut.max_dom = MaxDom(WithDom(fnIn))

(***************************************************************************)
(* determine_market_status and generate_recommendation, applied on their   *)
(* own to one market under two changes of the days on market               *)
(***************************************************************************)

\* generate_recommendation: the text of the status, each text named by its first
\* words, and the default of recommendations.get
generate_recommendation(status) ==
  CASE status = "cold" -> "good time to buy land"
    [] status = "stable" -> "good time to invest"
    [] status = "growing" -> "excellent time to buy"
    [] status = "overheated" -> "AVOID"
    [] OTHER -> "not enough data"

\* Inventories in tenths of a month, changes of the days on market in percent.
InventoryGrid == {0, 59, 60, 120, 121}
DomChanges == {-20, 0, 20}

\* determine_market_status and generate_recommendation for one inventory and price
\* change, under the changes dom1 and dom2 of the days on market
ApplyStatus(inventory, price_change, dom1, dom2) ==
  /\ calcCount < MaxCalcs
  /\ fnIn' = <<inventory, price_change, dom1, dom2>>
  /\ LET status1 == determine_market_status(inventory, price_change, dom1)
         status2 == determine_market_status(inventory, price_change, dom2)
     IN fnOut' = << status1, generate_recommendation(status1),
                    status2, generate_recommendation(status2) >>
  /\ calcCount' = calcCount + 1
  /\ UNCHANGED <<thresholds, weights, colorIn, colorOut, scoreIn, scoreOut, priceIn,
                 priceOut>>
  /\ UNCHANGED <<geoVars, streetVars, landVars, marketVars, selVars, ioVars>>

StatusStart ==
  /\ thresholds = <<>> /\ weights = <<>>
  /\ colorIn = <<0, 0>> /\ colorOut = <<"none", "none">>
  /\ scoreIn = <<>> /\ scoreOut = <<>>
  /\ priceIn = <<0, 0>> /\ priceOut = <<0, FALSE>>
  /\ calcCount = 0 /\ fnIn = <<0, 0, 0, 0>> /\ fnOut = <<"none", "none", "none", "none">>
  /\ GeoOff /\ StreetOff /\ LandOff /\ MarketOff /\ SelOff /\ IoOff

StatusNext ==
  \E inventory \in InventoryGrid, price_change \in PriceChanges, dom1, dom2 \in DomChanges :
     ApplyStatus(inventory, price_change, dom1, dom2)

SpecStatus == StatusStart /\ [][StatusNext]_vars

\* C25: two classifications with the same inventory and the same price change get
\* the same status and the same recommendation, whatever the change of the days on
\* market of each.
C25_StatusIgnoresDomChange ==
  calcCount > 0 => (fnOut[1] = fnOut[3] /\ fnOut[2] = fnOut[4])

\* C25 witness: a market below 6 months of inventory with prices up 16 percent is
\* overheated with the days on market down 20 percent and up 20 percent.
C25_Witness ==
  /\ calcCount > 0
  /\ fnIn = <<59, 16, -20, 20>>
  /\ fnOut[1] = "overheated" /\ fnOut[3] = "overheated"
  /\ fnOut[2] = "AVOID" /\ fnOut[4] = "AVOID"

(***************************************************************************)
(* analyzers/zone_analyzer.py: analyze_nearby_zones                        *)
(***************************************************************************)

\* price_per_sqft is NULL
NoPrice == -1

\* calculate_distance, squared, in (miles/100)^2, for coordinates in hundredths of a
\* degree: the same great-circle distance as the geocoder's, flat here too.
calculate_distance2(a, b) == haversine_distance2(a, b)

\* get_zone_color: the fixed ladder of this module
get_zone_color(price_per_sqft) ==
  IF price_per_sqft >= 350 THEN "green"
  ELSE IF price_per_sqft >= 300 THEN "light_green"
  ELSE IF price_per_sqft >= 220 THEN "yellow"
  ELSE "red"

\* analyze_nearby_zones lines 87-96: the rows of the bounding box that have a price
\* and are not archived. lat_delta = radius / 69 and lng_delta = radius / 55 degrees.
InBoundingBox(rows, target, radius_miles) ==
  { r \in rows :
      /\ MilesPerLatDeg * (r.lat - target[1]) <= 100 * radius_miles
      /\ MilesPerLatDeg * (target[1] - r.lat) <= 100 * radius_miles
      /\ MilesPerLonDeg * (r.lon - target[2]) <= 100 * radius_miles
      /\ MilesPerLonDeg * (target[2] - r.lon) <= 100 * radius_miles
      /\ r.price_per_sqft # NoPrice
      /\ ~r.archived }

\* analyze_nearby_zones lines 99-102: the rows of the box within the radius
NearbyProperties(rows, target, radius_miles) ==
  { r \in InBoundingBox(rows, target, radius_miles) :
      WithinMiles(calculate_distance2(target, <<r.lat, r.lon>>), radius_miles) }

\* int(x) for x = num / den with den > 0: towards zero
IntOf(num, den) == IF num >= 0 THEN num \div den ELSE -((-num) \div den)

\* The bonus of calculate_investment_score for the share of green and light green.
GreenBonus(green_zones, total) ==
  IF green_zones * 100 >= 75 * total THEN 25
  ELSE IF green_zones * 100 >= 60 * total THEN 15
  ELSE IF green_zones * 100 >= 50 * total THEN 10
  ELSE IF green_zones * 100 >= 40 * total THEN 5
  ELSE 0

\* The score before max(0, min(100, ...)), as an integer: with c / total * 100 percent
\* of a colour, (percent / 25) * k is 4 * k * c / total.
RawInvestmentScore(counts, total) ==
  IntOf((40 + GreenBonus(counts.green + counts.light_green, total)) * total
          + 140 * counts.green + 100 * counts.light_green + 40 * counts.yellow
          - 100 * counts.red,
        total)

\* A score that is returned as computed.
calculate_investment_score_raw(counts, total) == RawInvestmentScore(counts, total)

\* calculate_investment_score, from the counts the percentages are made of
calculate_investment_score(counts, total) ==
  LET score == RawInvestmentScore(counts, total)
      capped == IF score < 100 THEN score ELSE 100
  IN IF capped > 0 THEN capped ELSE 0

\* zone_analyzer.generate_recommendation: the tier of the score, each text named by
\* its first words
zone_recommendation(score) ==
  IF score >= 85 THEN "EXCELLENT OPPORTUNITY"
  ELSE IF score >= 70 THEN "VERY GOOD location"
  ELSE IF score >= 55 THEN "GOOD opportunity"
  ELSE IF score >= 40 THEN "MODERATE area"
  ELSE IF score >= 25 THEN "BELOW AVERAGE area"
  ELSE "POOR location"

\* analyze_nearby_zones: the dict it returns. The percentages are kept as their
\* counts over properties_analyzed; has_percentages tells whether statistics holds
\* them or the message.
analyze_nearby_zones(rows, target, radius_miles, min_properties) ==
  LET nearby_properties == NearbyProperties(rows, target, radius_miles)
      CountOf(color) ==
        Cardinality({ r \in nearby_properties : get_zone_color(r.price_per_sqft) = color })
      counts == [ green |-> CountOf("green"), light_green |-> CountOf("light_green"),
                  yellow |-> CountOf("yellow"), red |-> CountOf("red") ]
      total == Cardinality(nearby_properties)
  IN IF total >= min_properties
     THEN LET score == calculate_investment_score(counts, total)
          IN [ properties_analyzed |-> total, zones |-> counts, has_percentages |-> TRUE,
               score |-> score, recommendation |-> zone_recommendation(score) ]
     ELSE [ properties_analyzed |-> total, zones |-> counts, has_percentages |-> FALSE,
            score |-> 0, recommendation |-> "Insufficient data for analysis" ]

\* The target of the analysis and the rows of the repository: five with a price
\* within a mile, one inside the bounding box of two miles and outside the circle,
\* one without a price, one archived.
ZoneTarget == <<0, 0>>

ZoneRow(i, lat, lon, price) ==
  [id |-> i, lat |-> lat, lon |-> lon, price_per_sqft |-> price, archived |-> FALSE]

ZonePool ==
  { ZoneRow(1, 0, 0, 360), ZoneRow(2, 1, 0, 310), ZoneRow(3, 0, 1, 250),
    ZoneRow(4, 1, 1, 100), ZoneRow(5, -1, -1, 400), ZoneRow(6, 2, 3, 350),
    ZoneRow(7, 0, 0, NoPrice), [ZoneRow(8, 0, 0, 500) EXCEPT !.archived = TRUE] }

ZoneRadii == {1, 2}
MinProperties == {1, 5}

NoZoneIn == [rows |-> {}, radius_miles |-> 0, min_properties |-> 0]

\* analyze_nearby_zones applied to a repository, a radius and a minimum sample
ApplyZones(rows, radius_miles, min_properties) ==
  /\ calcCount < MaxCalcs
  /\ fnIn' = [rows |-> rows, radius_miles |-> radius_miles,
              min_properties |-> min_properties]
  /\ fnOut' = analyze_nearby_zones(rows, ZoneTarget, radius_miles, min_properties)
  /\ calcCount' = calcCount + 1
  /\ UNCHANGED <<thresholds, weights, colorIn, colorOut, scoreIn, scoreOut, priceIn,
                 priceOut>>
  /\ UNCHANGED <<geoVars, streetVars, landVars, marketVars, selVars, ioVars>>

ZoneStart ==
  /\ thresholds = <<>> /\ weights = <<>>
  /\ colorIn = <<0, 0>> /\ colorOut = <<"none", "none">>
  /\ scoreIn = <<>> /\ scoreOut = <<>>
  /\ priceIn = <<0, 0>> /\ priceOut = <<0, FALSE>>
  /\ calcCount = 0 /\ fnIn = NoZoneIn
  /\ fnOut = analyze_nearby_zones({}, ZoneTarget, 0, 1)
  /\ GeoOff /\ StreetOff /\ LandOff /\ MarketOff /\ SelOff /\ IoOff

ZoneNext ==
  \E rows \in SUBSET ZonePool, radius_miles \in ZoneRadii, min_properties \in MinProperties :
     ApplyZones(rows, radius_miles, min_properties)

SpecZone == ZoneStart /\ [][ZoneNext]_vars

\* The comparables inside the radius: the rows with a price, not archived, whose
\* distance to the target is at most the radius.
ComparablesInRadius(rows, radius_miles) ==
  { r \in rows :
      /\ r.price_per_sqft # NoPrice /\ ~r.archived
      /\ WithinMiles(calculate_distance2(ZoneTarget, <<r.lat, r.lon>>), radius_miles) }

\* C26: with fewer comparables inside the radius than the minimum sample the result
\* has no percentages, a score of 0 and the recommendation "Insufficient data for
\* analysis"; with the minimum or more it has a score from 0 to 100; in both cases
\* the four bucket counts add up to the number of comparables analysed.
C26_InsufficientDataOrClampedScore ==
  calcCount > 0 =>
    LET n == Cardinality(ComparablesInRadius(fnIn.rows, fnIn.radius_miles))
    IN /\ fnOut.properties_analyzed = n
       /\ fnOut.zones.green + fnOut.zones.light_green + fnOut.zones.yellow
            + fnOut.zones.red = fnOut.properties_analyzed
       /\ n < fnIn.min_properties =>
            /\ ~fnOut.has_percentages
            /\ fnOut.score = 0
            /\ fnOut.recommendation = "Insufficient data for analysis"
       /\ n >= fnIn.min_properties =>
            /\ fnOut.has_percentages
            /\ fnOut.score >= 0 /\ fnOut.score <= 100

\* C26 witness: five comparables within a mile, two of them green, one light green,
\* with a minimum sample of 5: the score before the clamp is above 100.
C26_Witness ==
  /\ calcCount > 0
  /\ fnIn.min_properties = 5 /\ fnIn.radius_miles = 1
  /\ fnOut.properties_analyzed = 5
  /\ fnOut.has_percentages
  /\ RawInvestmentScore(fnOut.zones, 5) > 100
  /\ fnOut.score = 100

\* ---------------------------------------------------------------------------
\* data/database.py get_session and the sessions of the analyzers.  Every
\* operation is a sequence of blocks of the shape
\*     session = get_session()
\*     try: ... finally: session.close()
\* run one after the other, its own and those of the functions it calls.
\* ---------------------------------------------------------------------------

MaxSessionOps == 3

SessionOps ==
  {"evaluate_land_opportunity", "analyze_single_street", "save_street_analysis",
   "analyze_market_heat_by_zip"}

\* The session blocks an operation runs through, in order.
SessionBlocks(op) ==
  CASE op = "evaluate_land_opportunity" ->
         <<"street_and_market", "get_nearby_properties", "store_opportunity">>
    [] op = "analyze_single_street" -> <<"get_properties_by_street">>
    [] op = "save_street_analysis" -> <<"save_street_analysis">>
    [] op = "analyze_market_heat_by_zip" ->
         <<"get_active_listings_count", "get_sold_last_90d_count",
           "calculate_price_change_90d", "calculate_dom_change", "save_market_heat">>

\* The blocks whose try holds a return that ends the operation itself.
ReturnsInsideTry == {"street_and_market"}

\* The blocks the operation can leave by a return placed in front of them,
\* outside every try: the coordinate test and the filters of evaluate, the test
\* of the sold count of analyze_market_heat_by_zip.  (What analyze_single_street
\* tests after its only block decides its result, with no session left to close.)
ReturnsBefore ==
  {"street_and_market", "get_nearby_properties", "store_opportunity",
   "calculate_price_change_90d"}

\* A finally that closes the session only when the try ended without an exception.
close_unless_raised(sessions, session, how) ==
  IF how = "raise" THEN sessions ELSE sessions \ {session}

\* finally: session.close(), however the try was left.
finally_close(sessions, session, how) == sessions \ {session}

CurrentBlock == SessionBlocks(sOp)[sBlock]

SessionFrame == UNCHANGED <<geoVars, streetVars, landVars, calcVars, marketVars, selVars, mailVars, importVars>>

EndOperation(how) ==
  /\ sOp' = "none" /\ sBlock' = 0 /\ sIn' = FALSE
  /\ sEnds' = sEnds \cup {how}
  /\ sOps' = sOps + 1

\* The operation is called.
SessionCall(op) ==
  /\ sOp = "none" /\ sOps < MaxSessionOps
  /\ sOp' = op /\ sBlock' = 1 /\ sIn' = FALSE
  /\ UNCHANGED <<openSessions, sessionsOpened, sEnds, sOps>>
  /\ SessionFrame

\* A return in front of a block, no session held.
ReturnBeforeBlock ==
  /\ sOp # "none" /\ ~sIn
  /\ CurrentBlock \in ReturnsBefore
  /\ EndOperation("rejected")
  /\ UNCHANGED <<openSessions, sessionsOpened>>
  /\ SessionFrame

\* session = get_session(); the try is entered.
get_session ==
  /\ sOp # "none" /\ ~sIn
  /\ sessionsOpened' = sessionsOpened + 1
  /\ openSessions' = openSessions \cup {sessionsOpened + 1}
  /\ sIn' = TRUE
  /\ UNCHANGED <<sOp, sBlock, sEnds, sOps>>
  /\ SessionFrame

\* The try is left: at its end ("through"), by a return of the operation
\* ("return") or by an exception, which no caller catches ("raise").  The
\* finally runs before the control goes anywhere else.
LeaveTry(how) ==
  /\ sOp # "none" /\ sIn
  /\ how = "return" => CurrentBlock \in ReturnsInsideTry
  /\ openSessions' = finally_close(openSessions, sessionsOpened, how)
  /\ UNCHANGED sessionsOpened
  /\ IF how = "raise" THEN EndOperation("raised")
     ELSE IF how = "return" THEN EndOperation("rejected")
     ELSE IF sBlock = Len(SessionBlocks(sOp)) THEN EndOperation("returned")
     ELSE /\ sBlock' = sBlock + 1 /\ sIn' = FALSE
          /\ UNCHANGED <<sOp, sEnds, sOps>>
  /\ SessionFrame

SessionStart ==
  /\ SessOff /\ MailOff /\ ImportOff
  /\ GeoOff /\ StreetOff /\ LandOff /\ CalcOff /\ MarketOff /\ SelOff

SessionNext ==
  \/ \E op \in SessionOps : SessionCall(op)
  \/ ReturnBeforeBlock
  \/ get_session
  \/ \E how \in {"through", "return", "raise"} : LeaveTry(how)

SpecSession == SessionStart /\ [][SessionNext]_vars

\* C27: every session an operation opens is closed before the operation
\* returns, whether it succeeded, rejected its input or raised: no session is
\* open when no operation runs, none is open between two blocks of an
\* operation, and at most one is open at any time.
C27_SessionsClosedBeforeReturn ==
  /\ ~sIn => openSessions = {}
  /\ sIn => openSessions = {sessionsOpened}

\* operations have ended in each of the three ways, the last one holding no session
C27_Witness ==
  /\ sOp = "none" /\ sEnds = {"returned", "rejected", "raised"}
  /\ sessionsOpened > 0 /\ openSessions = {}

\* ---------------------------------------------------------------------------
\* monitors/email_monitor.py: successive check_new_emails runs of one monitor
\* ---------------------------------------------------------------------------

MaxRuns == 3

\* the message ids the server can list
MsgIds == {1, 2, 3}

\* What handling one fetched email comes to.  process_email catches every
\* exception of the fetch and of the parsing and returns the listings it has
\* ("parse_failed", "no_listing", "listings"); save_to_database catches its
\* own.  should_alert is called in no try of its own: an exception of its
\* repository query or of its configuration lookups ("alert_raised") leaves
\* check_new_emails through the except of the whole run.
EmailOutcomes == {"listings", "no_listing", "parse_failed", "alert_raised"}

MinOf(ids) == CHOOSE i \in ids : \A j \in ids : i <= j

MailFrame == UNCHANGED <<geoVars, streetVars, landVars, calcVars, marketVars, selVars, sessVars, importVars>>

\* EmailMonitor.__init__ has run load_processed_emails: the set in memory is
\* the content of the file, empty when there is no file.
MailInit ==
  /\ processedFile \in SUBSET {1}
  /\ processed_emails = processedFile
  /\ mpc = "idle" /\ mTodo = {}
  /\ fetches = [i \in MsgIds |-> 0]
  /\ mRuns = 0

\* check_new_emails up to the loop: connect_to_email returns False and the run
\* returns at once, or the search lists the unread emails that match.
check_new_emails(connected, email_ids) ==
  /\ mpc = "idle" /\ mRuns < MaxRuns
  /\ mRuns' = mRuns + 1
  /\ IF connected THEN mpc' = "loop" /\ mTodo' = email_ids
                  ELSE mpc' = "idle" /\ mTodo' = {}
  /\ UNCHANGED <<processed_emails, processedFile, fetches>>
  /\ MailFrame

\* One pass of the loop over email_ids.
CheckEmail(outcome) ==
  /\ mpc = "loop" /\ mTodo # {}
  /\ LET msg_id == MinOf(mTodo) IN
       IF msg_id \in processed_emails
         THEN /\ mTodo' = mTodo \ {msg_id}
              /\ UNCHANGED <<processed_emails, fetches, mpc>>
         ELSE /\ fetches' = [fetches EXCEPT ![msg_id] = @ + 1]
              /\ IF outcome = "alert_raised"
                   THEN /\ mpc' = "idle" /\ mTodo' = {}
                        /\ UNCHANGED processed_emails
                   ELSE /\ processed_emails' = processed_emails \cup {msg_id}
                        /\ mTodo' = mTodo \ {msg_id}
                        /\ UNCHANGED mpc
  /\ UNCHANGED <<processedFile, mRuns>>
  /\ MailFrame

\* After the loop: save_processed_emails writes the set, or its open fails
\* and the except of the run logs it.
SaveProcessed(written) ==
  /\ mpc = "loop" /\ mTodo = {}
  /\ processedFile' = IF written THEN processed_emails ELSE processedFile
  /\ mpc' = "idle"
  /\ UNCHANGED <<processed_emails, mTodo, fetches, mRuns>>
  /\ MailFrame

MailStart ==
  /\ MailInit /\ SessOff /\ ImportOff
  /\ GeoOff /\ StreetOff /\ LandOff /\ CalcOff /\ MarketOff /\ SelOff

MailNext ==
  \/ \E connected \in BOOLEAN, email_ids \in SUBSET MsgIds : check_new_emails(connected, email_ids)
  \/ \E outcome \in EmailOutcomes : CheckEmail(outcome)
  \/ \E written \in BOOLEAN : SaveProcessed(written)

SpecMail == MailStart /\ [][MailNext]_vars

\* C29: across the runs of one monitor no email is fetched twice, and between
\* two runs every email that was fetched is in the processed set.
C29_NoEmailProcessedTwice ==
  /\ \A i \in MsgIds : fetches[i] <= 1
  /\ mpc = "idle" => \A i \in MsgIds : fetches[i] > 0 => i \in processed_emails

\* ---------------------------------------------------------------------------
\* data/mls_importer.py: import_csv_file
\* ---------------------------------------------------------------------------

MaxFiles == 2

MaxRows == 2

\* session.commit() inside the loop, every 100 rows
CommitEvery == 100

MlsNumbers == {"m1", "m2"}

\* A row of the file: valid when process_single_property makes a Property of
\* it (an MLS number and a positive area), with the status it carries.
CsvRows == [mls : MlsNumbers, valid : BOOLEAN, status : {"active", "sold"}]

CsvFiles == UNION { [1..n -> CsvRows] : n \in 1..MaxRows }

\* the MLS numbers of the committed rows
CommittedMls == { r.mls : r \in table }

\* check_duplicate: a query in a session of its own, which sees the committed
\* rows and nothing the session of the import holds.
check_duplicate(mls_number) == mls_number \in CommittedMls

\* Property.mls_number is unique: the flush of a commit fails when the rows
\* to insert repeat an MLS number or carry one a committed row has.
IntegrityError(rows, todo) ==
  \E i \in 1..Len(todo) :
    /\ todo[i].op = "add"
    /\ \/ todo[i].mls \in { r.mls : r \in rows }
       \/ \E j \in 1..Len(todo) : j # i /\ todo[j].op = "add" /\ todo[j].mls = todo[i].mls

\* The rows after a commit that went through: the inserts and the changes of
\* status in the order the session got them.
RECURSIVE Committed(_, _)
Committed(rows, todo) ==
  IF todo = <<>> THEN rows
  ELSE LET t == Head(todo) IN
       Committed(IF t.op = "add"
                   THEN rows \cup {[id |-> Cardinality(rows) + 1, mls |-> t.mls, status |-> t.status]}
                   ELSE { IF r.mls = t.mls THEN [r EXCEPT !.status = t.status] ELSE r : r \in rows },
                 Tail(todo))

ImportFrame == UNCHANGED <<geoVars, streetVars, landVars, calcVars, marketVars, selVars, sessVars, mailVars>>

ImportInit ==
  /\ table \in { {}, {[id |-> 1, mls |-> "m1", status |-> "active"]} }
  /\ pending = <<>> /\ csv = <<>> /\ idx = 0 /\ ipc = "idle"
  /\ new_count = 0 /\ iReturned = -1 /\ iRuns = 0

\* import_csv_file up to the loop: the file is read and validated, or the
\* import returns 0 at once.
import_csv_file(file, readable) ==
  /\ ipc = "idle" /\ iRuns < MaxFiles
  /\ iRuns' = iRuns + 1
  /\ csv' = IF readable THEN file ELSE <<>>
  /\ idx' = 0 /\ new_count' = 0 /\ pending' = <<>>
  /\ IF readable THEN ipc' = "loop" /\ iReturned' = -1
                 ELSE ipc' = "idle" /\ iReturned' = 0
  /\ UNCHANGED table
  /\ ImportFrame

\* session.commit() failed: except, rollback, return 0
ImportFails ==
  /\ pending' = <<>> /\ ipc' = "idle" /\ iReturned' = 0
  /\ UNCHANGED <<table, new_count>>

\* One pass of the loop over the rows, with the commit every 100 rows.
ImportRow ==
  /\ ipc = "loop" /\ idx < Len(csv)
  /\ LET row == csv[idx + 1]
         todo == IF ~row.valid THEN pending
                 ELSE IF check_duplicate(row.mls)
                   THEN Append(pending, [op |-> "update", mls |-> row.mls, status |-> row.status])
                   ELSE Append(pending, [op |-> "add", mls |-> row.mls, status |-> row.status])
         added == IF row.valid /\ ~check_duplicate(row.mls) THEN 1 ELSE 0
     IN IF row.valid /\ (idx + 1) % CommitEvery = 0
          THEN IF IntegrityError(table, todo)
                 THEN ImportFails /\ UNCHANGED idx
                 ELSE /\ table' = Committed(table, todo) /\ pending' = <<>>
                      /\ new_count' = new_count + added /\ idx' = idx + 1
                      /\ UNCHANGED <<ipc, iReturned>>
          ELSE /\ pending' = todo /\ new_count' = new_count + added /\ idx' = idx + 1
               /\ UNCHANGED <<table, ipc, iReturned>>
  /\ UNCHANGED <<csv, iRuns>>
  /\ ImportFrame

\* The commit after the loop and the return.
ImportCommit ==
  /\ ipc = "loop" /\ idx = Len(csv)
  /\ IF IntegrityError(table, pending)
       THEN ImportFails
       ELSE /\ table' = Committed(table, pending) /\ pending' = <<>>
            /\ ipc' = "idle" /\ iReturned' = new_count
            /\ UNCHANGED new_count
  /\ UNCHANGED <<csv, idx, iRuns>>
  /\ ImportFrame

ImportStart ==
  /\ ImportInit /\ SessOff /\ MailOff
  /\ GeoOff /\ StreetOff /\ LandOff /\ CalcOff /\ MarketOff /\ SelOff

ImportNext ==
  \/ \E file \in CsvFiles, readable \in BOOLEAN : import_csv_file(file, readable)
  \/ ImportRow
  \/ ImportCommit

SpecImport == ImportStart /\ [][ImportNext]_vars

\* C30: after an import the repository holds at most one Property per MLS
\* number and a Property for every valid row of the file.
C30_OneRowPerMlsNoRowLost ==
  /\ \A r1, r2 \in table : r1.mls = r2.mls => r1 = r2
  /\ ipc = "idle" =>
       \A i \in 1..Len(csv) : csv[i].valid => csv[i].mls \in CommittedMls
====
